---- MODULE Spec2Model ----
(***************************************************************************)
(* A model of the submission pipeline (Google Apps Script):                *)
(*   InputProcessor   (src/unnamed/part_000, second definition)            *)
(*   ProductsApi      (src/ProductsApi.js, both definitions)               *)
(*   GBPApi           (src/ImageUploader.js)                               *)
(*   ExecutionLogger  (src/ExecutionLogger.js)                             *)
(*   MainProcessor    (src/MainProcessor.js)                               *)
(*                                                                         *)
(* Execution is single threaded; pc is the position of the one running     *)
(* script.  The collaborators (Drive, Spreadsheet service, directory API)  *)
(* are the environment: every call to one of them either succeeds or      *)
(* throws, chosen nondeterministically, and the exception travels the way  *)
(* the try/catch/finally blocks of the source send it.                     *)
(*                                                                         *)
(* Strings the source writes in Japanese are written here in ASCII:        *)
(*   labels of CONFIG.INPUT_DETAIL_COLS  ->  "col:<field>"                 *)
(*   buttons of CONFIG.BUTTON_TYPE_MAP   ->  "btn:<action>", "btn:none"    *)
(*   messages                            ->  short English tags            *)
(***************************************************************************)
EXTENDS Integers, Sequences, FiniteSets, TLC

\* ------------------------------------------------------------------ bounds
MaxFiles == 2        \* files one inbox scan returns
MaxDetailRows == 2   \* grid rows below the detail header row
MaxExecs == 2        \* executions of processInboxFiles alive at once
MaxPages == 3        \* pages of a location listing
MaxRecords == 3      \* record calls made on one logger

\* --------------------------------------------------------------- constants
INPUT_DETAIL_HEADER_ROW == 6

NULL == "null"

\* a value that may be absent: None, or Some(x) with x read back as v[1]
None == <<>>
Some(x) == <<x>>

\* CONFIG.INPUT_HEADER_ROWS: grid row (1-based) -> header field
INPUT_HEADER_ROWS ==
  (1 :> "businessGroupId") @@ (2 :> "businessGroupName") @@
  (3 :> "googleAccountId") @@ (4 :> "pass")

Fields ==
  <<"businessName", "storeCode", "productCategory", "productName",
    "description", "price", "buttonType", "landingPageUrl", "imagePath">>

FieldSet == {Fields[i] : i \in 1..Len(Fields)}

\* CONFIG.INPUT_DETAIL_COLS: column label -> field
INPUT_DETAIL_COLS ==
  [l \in {"col:businessName", "col:storeCode", "col:productCategory",
          "col:productName", "col:description", "col:price",
          "col:buttonType", "col:landingPageUrl", "col:imagePath"} |->
     CASE l = "col:businessName"    -> "businessName"
       [] l = "col:storeCode"       -> "storeCode"
       [] l = "col:productCategory" -> "productCategory"
       [] l = "col:productName"     -> "productName"
       [] l = "col:description"     -> "description"
       [] l = "col:price"           -> "price"
       [] l = "col:buttonType"      -> "buttonType"
       [] l = "col:landingPageUrl"  -> "landingPageUrl"
       [] l = "col:imagePath"       -> "imagePath"]

\* CONFIG.BUTTON_TYPE_MAP: button label -> actionType ("btn:none" -> "")
BUTTON_TYPE_MAP ==
  [b \in {"btn:BOOK", "btn:ORDER", "btn:LEARN_MORE", "btn:BUY",
          "btn:GET_OFFER", "btn:SIGN_UP", "btn:CALL", "btn:none"} |->
     CASE b = "btn:BOOK"       -> "BOOK"
       [] b = "btn:ORDER"      -> "ORDER"
       [] b = "btn:LEARN_MORE" -> "LEARN_MORE"
       [] b = "btn:BUY"        -> "BUY"
       [] b = "btn:GET_OFFER"  -> "GET_OFFER"
       [] b = "btn:SIGN_UP"    -> "SIGN_UP"
       [] b = "btn:CALL"       -> "CALL"
       [] b = "btn:none"       -> ""]

\* ------------------------------------------------------ string primitives
\* String.prototype.trim on the cell texts the model draws
Trim(s) ==
  CASE s = " "        -> ""
    [] s = "  "       -> ""
    [] s = " S1 "     -> "S1"
    [] s = " G1"      -> "G1"
    [] OTHER          -> s

\* value.startsWith('(') with the full-width parenthesis of the template hint
StartsWithParen(s) == s \in {"(enter a value here)"}

\* /^https?:\/\//i.test(url)
IsHttpUrl(s) == s \in {"https://shop.example/p", "http://shop.example/p",
                        "HTTPS://SHOP.EXAMPLE/P"}

\* parseFloat(priceStr.replace(/[^\d.]/g, '')) || 0 on the price texts drawn;
\* a price is held in hundredths
ParsePrice(s) ==
  CASE s = "1200"    -> 120000
    [] s = "1,200"   -> 120000
    [] s = "12.5"    -> 1250
    [] s = "-500"    -> 50000
    [] s = "0"       -> 0
    [] s = "free"    -> 0
    [] OTHER         -> 0

\* ------------------------------------------------------------- the parser
\* _parseHeader: column B of rows 1..4, trimmed; template hints read as ''
HeaderValue(rows, n) ==
  IF n <= Len(rows) /\ Len(rows[n]) > 1
  THEN LET value == Trim(rows[n][2])
       IN  IF StartsWithParen(value) \/ value = "accounts/XXXXXX"
           THEN "" ELSE value
  ELSE ""

_parseHeader(rows) ==
  [f \in {INPUT_HEADER_ROWS[n] : n \in DOMAIN INPUT_HEADER_ROWS} |->
     HeaderValue(rows, CHOOSE n \in DOMAIN INPUT_HEADER_ROWS :
                         INPUT_HEADER_ROWS[n] = f)]

\* _buildColIndexMap: field -> index of the last cell carrying its label
_buildColIndexMap(headerRow) ==
  LET hit(i) == Trim(headerRow[i]) \in DOMAIN INPUT_DETAIL_COLS
      found == {INPUT_DETAIL_COLS[Trim(headerRow[i])] :
                  i \in {j \in 1..Len(headerRow) : hit(j)}}
  IN  [f \in found |->
         CHOOSE i \in 1..Len(headerRow) :
           /\ hit(i) /\ INPUT_DETAIL_COLS[Trim(headerRow[i])] = f
           /\ \A j \in 1..Len(headerRow) :
                (hit(j) /\ INPUT_DETAIL_COLS[Trim(headerRow[j])] = f) => j <= i]

\* an emptiness test that looks at the first cell only
_isEmptyRowFirstCell(row) == Len(row) = 0 \/ Trim(row[1]) = ""

\* _isEmptyRow
_isEmptyRow(row) == Len(row) = 0 \/ \A i \in 1..Len(row) : Trim(row[i]) = ""

\* _parseDetailRow; a field without a column is left undefined in the source
\* and reads as '' in every test the program makes of it
CellOf(dataRow, colIndexMap, f) ==
  IF f \in DOMAIN colIndexMap /\ colIndexMap[f] <= Len(dataRow)
  THEN Trim(dataRow[colIndexMap[f]]) ELSE ""

_parseDetailRow(dataRow, colIndexMap, rowNum) ==
  LET raw == [f \in FieldSet |-> CellOf(dataRow, colIndexMap, f)]
      btnLabel == raw["buttonType"]
  IN  [rowNum |-> rowNum,
       businessName |-> raw["businessName"],
       storeCode |-> raw["storeCode"],
       productCategory |-> raw["productCategory"],
       productName |-> raw["productName"],
       description |-> raw["description"],
       price |-> ParsePrice(raw["price"]),
       buttonType |-> btnLabel,
       buttonTypeApi |-> IF btnLabel \in DOMAIN BUTTON_TYPE_MAP
                         THEN BUTTON_TYPE_MAP[btnLabel] ELSE btnLabel,
       landingPageUrl |-> raw["landingPageUrl"],
       imagePath |-> raw["imagePath"]]

\* one rule of _validateDetail: its entry when violated
Rule(cond, rowNum, msg) == IF cond THEN <<[row |-> rowNum, msg |-> msg]>> ELSE <<>>

\* a validation that stops at the first violated rule
_validateDetailFirstOnly(detail, rowNum) ==
  LET all == Rule(detail.businessName = "", rowNum, "businessName required")
          \o Rule(detail.storeCode = "", rowNum, "storeCode required")
          \o Rule(detail.productName = "", rowNum, "productName required")
          \o Rule(detail.description = "", rowNum, "description required")
          \o Rule(detail.landingPageUrl # "" /\ ~IsHttpUrl(detail.landingPageUrl),
                  rowNum, "landingPageUrl malformed")
          \o Rule(detail.buttonType # "" /\ detail.buttonType # "btn:none"
                  /\ detail.landingPageUrl = "", rowNum, "button needs landingPageUrl")
  IN  IF Len(all) > 1 THEN <<all[1]>> ELSE all

\* _validateDetail: every violated rule, in the order of the source

_validateDetail(detail, rowNum) ==
     Rule(detail.businessName = "", rowNum, "businessName required")
  \o Rule(detail.storeCode = "", rowNum, "storeCode required")
  \o Rule(detail.productName = "", rowNum, "productName required")
  \o Rule(detail.description = "", rowNum, "description required")
  \o Rule(detail.landingPageUrl # "" /\ ~IsHttpUrl(detail.landingPageUrl),
          rowNum, "landingPageUrl malformed")
  \o Rule(detail.buttonType # "" /\ detail.buttonType # "btn:none"
          /\ detail.landingPageUrl = "", rowNum, "button needs landingPageUrl")

\* the loop of _buildInputData over the rows below the detail header row
RECURSIVE ParseDetails(_, _, _)
ParseDetails(rows, colIndexMap, i) ==
  IF i > Len(rows) THEN <<>>
  ELSE IF _isEmptyRow(rows[i]) THEN ParseDetails(rows, colIndexMap, i + 1)
  ELSE LET detail == _parseDetailRow(rows[i], colIndexMap, i)
       IN  <<[rowNum |-> i, data |-> detail,
              errors |-> _validateDetail(detail, i)]>>
           \o ParseDetails(rows, colIndexMap, i + 1)

\* a grid check that reports the short grid and the missing rows both
_buildInputDataTwoErrors(rows) ==
  IF Len(rows) < INPUT_DETAIL_HEADER_ROW
  THEN [header |-> None, details |-> <<>>,
        errors |-> <<"too few rows", "no detail rows">>]
  ELSE
    LET header == _parseHeader(rows)
        hErrors ==
             (IF header["businessGroupId"] = "" THEN <<"businessGroupId missing">> ELSE <<>>)
          \o (IF header["googleAccountId"] = "" THEN <<"googleAccountId missing">> ELSE <<>>)
        colIndexMap == _buildColIndexMap(rows[INPUT_DETAIL_HEADER_ROW])
        details == ParseDetails(rows, colIndexMap, INPUT_DETAIL_HEADER_ROW + 1)
    IN  IF DOMAIN colIndexMap = {}
        THEN [header |-> Some(header), details |-> <<>>,
              errors |-> hErrors \o <<"detail header unreadable">>]
        ELSE [header |-> Some(header), details |-> details,
              errors |-> hErrors \o
                (IF Len(details) = 0 THEN <<"no detail rows">> ELSE <<>>)]

_buildInputData(rows) ==
  IF Len(rows) < INPUT_DETAIL_HEADER_ROW
  THEN [header |-> None, details |-> <<>>, errors |-> <<"too few rows">>]
  ELSE
    LET header == _parseHeader(rows)
        hErrors ==
             (IF header["businessGroupId"] = "" THEN <<"businessGroupId missing">> ELSE <<>>)
          \o (IF header["googleAccountId"] = "" THEN <<"googleAccountId missing">> ELSE <<>>)
        colIndexMap == _buildColIndexMap(rows[INPUT_DETAIL_HEADER_ROW])
        details == ParseDetails(rows, colIndexMap, INPUT_DETAIL_HEADER_ROW + 1)
    IN  IF DOMAIN colIndexMap = {}
        THEN [header |-> Some(header), details |-> <<>>,
              errors |-> hErrors \o <<"detail header unreadable">>]
        ELSE [header |-> Some(header), details |-> details,
              errors |-> hErrors \o
                (IF Len(details) = 0 THEN <<"no detail rows">> ELSE <<>>)]

\* MIME types: the four the inbox scan accepts, text/plain, and one other
ListedMimes == {"sheets", "xlsx", "xls", "csv"}
Mimes == ListedMimes \cup {"plain", "pdf"}

\* InputProcessor.parse: read is what the reader of the format did, either
\* [ok |-> FALSE] (it threw) or [ok |-> TRUE, rows |-> the grid]
parse(mime, read) ==
  IF mime \notin ListedMimes \cup {"plain"}
  THEN [header |-> None, details |-> <<>>, errors |-> <<"unsupported format">>]
  ELSE IF ~read.ok
  THEN [header |-> None, details |-> <<>>, errors |-> <<"read failed">>]
  ELSE _buildInputData(read.rows)

\* ------------------------------------------------------- the environment
\* Drive sharing states (access, permission)
Public == [access |-> "ANYONE_WITH_LINK", permission |-> "VIEW"]
Private == [access |-> "PRIVATE", permission |-> "NONE"]
DomainEdit == [access |-> "DOMAIN_WITH_LINK", permission |-> "EDIT"]
SharingStates == {Private, Public, DomainEdit}

Assets == {"a1"}

\* image path texts and what Drive holds for them
\*   "url:a1"       a Drive URL whose id= part is the id of a1
\*   "id:a1"        the bare id of a1 (25+ id characters)
\*   "dir/a1.jpg"   a folder path that leads to a1
\*   "a1.jpg"       a file name in the root folder, a1
\*   "dir/none.jpg" a folder path that leads to nothing
\*   "id:gone"      25+ id characters that name no file
UrlMatch(p) == IF p = "url:a1" THEN "a1" ELSE NULL
IsIdShape(p) == p \in {"id:a1", "id:gone"}
HasSlash(p) == p \in {"url:a1", "dir/a1.jpg", "dir/none.jpg"}
DriveFileById(id) == IF id \in {"a1", "id:a1"} THEN "a1" ELSE NULL
DriveFileByPath(p) == IF p \in {"dir/a1.jpg", "a1.jpg"} THEN "a1" ELSE NULL

\* the provider's location listing, as the pages it serves
ListingA ==
  << << [name |-> "accounts/1/locations/1", storeCode |-> "S1"],
        [name |-> "accounts/1/locations/0", storeCode |-> ""] >>,
     << [name |-> "accounts/1/locations/2", storeCode |-> "S2"] >> >>
Listings == {ListingA}

\* grids: rows 1-4 "key | value", row 5 empty, row 6 labels, rows 7.. details
HeaderOk ==
  << <<"businessGroupId", " G1">>, <<"businessGroupName", "Group">>,
     <<"googleAccountId", "accounts/1">>, <<"PASS", "pw">>, <<>> >>
HeaderBad ==
  << <<"businessGroupId", "(enter a value here)">>, <<"businessGroupName", "Group">>,
     <<"googleAccountId", "accounts/XXXXXX">>, <<"PASS", "">>, <<>> >>
HeaderPool == {HeaderOk, HeaderBad}

TemplateLabels ==
  <<"col:businessName", "col:storeCode", "col:productCategory",
    "col:productName", "col:description", "col:price", "col:buttonType",
    "col:landingPageUrl", "col:imagePath">>
UnknownLabels == <<"name", "code">>
LabelPool == {TemplateLabels, UnknownLabels}

RowInvalidName ==
  <<"", "S1", "food", "Lunch", "desc", "1200", "", "", "">>
RowPlain ==
  <<"Shop", " S1 ", "food", "Lunch", "desc", "1200", "btn:LEARN_MORE",
    "https://shop.example/p", "">>
RowImage ==
  <<"Shop", "S2", "food", "Lunch", "desc", "0", "", "", "dir/a1.jpg">>
RowNoSuchImage ==
  <<"Shop", "S1", "food", "Lunch", "desc", "1,200", "", "", "dir/none.jpg">>
RowUnmatched ==
  <<"Shop", "S9", "food", "Lunch", "desc", "1200", "", "", "dir/a1.jpg">>
RowProtoKey ==
  <<"Shop", "constructor", "food", "Lunch", "desc", "1200", "", "", "dir/a1.jpg">>
RowBlank == <<" ", "", "", "", "", "", "", "", "">>
RowPool == {RowInvalidName, RowPlain, RowImage, RowNoSuchImage, RowUnmatched,
            RowProtoKey, RowBlank}

DetailSeqs == UNION {[1..n -> RowPool] : n \in 0..MaxDetailRows}

FullGrids == {h \o <<l>> \o d : h \in HeaderPool, l \in LabelPool, d \in DetailSeqs}
ShortGrids == {SubSeq(HeaderOk, 1, n) : n \in 0..Len(HeaderOk)}
GridPool == FullGrids \cup ShortGrids

\* ------------------------------------------------------------------ state
VARIABLES
  apiDef,        \* which definition of ProductsApi in src/ProductsApi.js runs: 1 or 2
  entry,         \* entry point running: "none", "inbox", "byId", "upload"
  pc,            \* position of the script
  files,         \* number of files the inbox scan returned
  fileIdx,       \* file being processed (1-based)
  folder,        \* file -> folder it is in: "Inbox", "Processed", "Error"
  routed,        \* file -> target of the last _moveFile call, "none" before
  path,          \* how _processOneFile ended for the current file
  parsed,        \* result of InputProcessor.parse for the current file
  logger,        \* the ExecutionLogger instance of the current file
  successCount,  \* _processOneFile's own counters
  errorCount,
  rowIdx,        \* index into parsed.details of the row in hand
  storeCodeMap,  \* store code -> location name
  listing,       \* the pages the provider serves for the account
  pageToken,     \* continuation token: 0 is '', n asks for page n+1
  listCalls,     \* location-listing requests made for the current file
  rowOps,        \* per row taken up by the loop: what was done for it
  imageRef,      \* exposure handle of the publish call in progress, or None
  result,        \* outcome of the publish call in progress
  restoreFailed, \* the restore of the publish call in progress threw
  lastPost,      \* payload of the last listing-creation request
  sharing,       \* asset -> sharing state in Drive
  preSharing,    \* sharing when the publish call in progress began
  delays,        \* Utilities.sleep(300) calls made in the current file
  exc,           \* message of the exception in flight, "none" otherwise
  prevMap,       \* map returned by the previous buildStoreCodeMap call, or None
  execs,         \* overlapping processInboxFiles executions: scan and position
  handledBy,     \* file -> the executions that ran _processOneFile on it
  calls,         \* concurrent publish calls on one asset: position and handle
  temp,          \* the spreadsheet _readExcel converts into, and its read
  cells,         \* the sheet row handed to _parseDetailRow
  triggers,      \* the project's triggers, in the order ScriptApp lists them
  setup,         \* the trigger function called last, its argument and outcome
  runStart       \* asset -> sharing state when the run began

vars ==
  <<apiDef, entry, pc, files, fileIdx, folder, routed, path, parsed, logger,
    successCount, errorCount, rowIdx, storeCodeMap, listing, pageToken,
    listCalls, rowOps, imageRef, result, restoreFailed, lastPost, sharing,
    preSharing, delays, exc, prevMap, execs, handledBy, calls, temp, cells,
    triggers, setup, runStart>>

Files == 1..MaxFiles

\* a project without triggers, and no trigger function called yet
NoTriggers == <<>>
\* what a caller passes: nothing, a number, or a text of digits
Undefined == [t |-> "undefined", v |-> 0]
Num(n) == [t |-> "number", v |-> n]
Str(n) == [t |-> "string", v |-> n]
NoSetup == [fn |-> "none", arg |-> Undefined, deleted |-> 0, threw |-> FALSE]
Execs == 1..MaxExecs

\* a publish call that has not begun, and no converted spreadsheet
NoCall == [kind |-> "none", phase |-> "none", ref |-> None,
           cutOff |-> FALSE, threw |-> FALSE]
NoCells == <<>>
NoTemp == [state |-> "none", mime |-> "none", grid |-> <<>>, readOk |-> FALSE,
           trashCalls |-> 0, trashThrew |-> FALSE]

\* an execution that has not scanned the inbox yet
IdleExec == [phase |-> "idle", scanned |-> <<>>, at |-> 0, after |-> {}]

NoParse == [header |-> None, details |-> <<>>, errors |-> <<>>]
NoResult == [ok |-> FALSE, name |-> "", message |-> <<>>]
EmptyMap == [c \in {} |-> ""]

\* ExecutionLogger.create: _stats zeroed, an empty detail sheet
NewLogger ==
  [created |-> TRUE,
   stats |-> [total |-> 0, success |-> 0, skip |-> 0, error |-> 0],
   entries |-> <<>>,
   finalized |-> 0,
   summary |-> None,
   successRate |-> None]

NoLogger == [NewLogger EXCEPT !.created = FALSE]

\* counters that leave a SKIP row out of skip
CountRowSkipUncounted(stats, res) ==
  [stats EXCEPT !.total = @ + 1,
                !.success = IF res = "SUCCESS" THEN @ + 1 ELSE @,
                !.error = IF res \notin {"SUCCESS", "SKIP"} THEN @ + 1 ELSE @]

\* addRow, lines 74-77: the counters
CountRow(stats, res) ==
  [stats EXCEPT !.total = @ + 1,
                !.success = IF res = "SUCCESS" THEN @ + 1 ELSE @,
                !.skip = IF res = "SKIP" THEN @ + 1 ELSE @,
                !.error = IF res \notin {"SUCCESS", "SKIP"} THEN @ + 1 ELSE @]

\* addRow, lines 79-100: the row written to the detail sheet
RowEntry(detail, res, postId, message) ==
  [kind |-> "row", rowNum |-> detail.rowNum, storeCode |-> detail.storeCode,
   result |-> res, postId |-> postId, message |-> message]

\* addRow as a whole, and addRow when the sheet write throws: the counters
\* are already incremented, the row is not written
addRow(lg, detail, res, postId, message) ==
  [lg EXCEPT !.stats = CountRow(@, res),
             !.entries = Append(@, RowEntry(detail, res, postId, message))]

addRowThrows(lg, res) == [lg EXCEPT !.stats = CountRow(@, res)]

\* addHeaderError, lines 110-111 and 113-124
CountHeaderError(stats) ==
  [stats EXCEPT !.total = @ + 1, !.error = @ + 1]

HeaderEntry(message) ==
  [kind |-> "header", rowNum |-> 0, storeCode |-> "", result |-> "ERROR",
   postId |-> "", message |-> <<"[header error]", message>>]

addHeaderError(lg, message) ==
  [lg EXCEPT !.stats = CountHeaderError(@),
             !.entries = Append(@, HeaderEntry(message))]

addHeaderErrorThrows(lg) == [lg EXCEPT !.stats = CountHeaderError(@)]

\* parsed.errors.forEach(addHeaderError) over the first k errors
RECURSIVE AddHeaderErrors(_, _, _)
AddHeaderErrors(lg, errors, k) ==
  IF k = 0 THEN lg
  ELSE addHeaderError(AddHeaderErrors(lg, errors, k - 1), errors[k])

\* finalize: builds the summary sheet; the counters are only read
\* Math.round(a / b) for a >= 0 and b > 0: the nearest whole number, a
\* half going up
MathRound(a, b) == (2 * a + b) \div (2 * b)

\* a success rate cut off below the whole per cent
SuccessRateFloor(stats) ==
  IF stats.total > 0
  THEN <<(100 * stats.success) \div stats.total, "%">>
  ELSE <<"-">>

\* _buildSummarySheet, lines 147-151: the rate as a text, or '-'
SuccessRate(stats) ==
  IF stats.total > 0
  THEN <<MathRound(100 * stats.success, stats.total), "%">>
  ELSE <<"-">>

\* finalize: the summary sheet is written from _stats, which is only read
finalize(lg) ==
  [lg EXCEPT !.finalized = @ + 1, !.summary = Some(lg.stats),
             !.successRate = Some(SuccessRate(lg.stats))]

\* _normalizeAccountName
_normalizeAccountName(googleAccountId) ==
  CASE googleAccountId = ""  -> ""
    [] googleAccountId = "1" -> "accounts/1"
    [] OTHER                 -> googleAccountId

\* line 170 without the test of successCount
RouteTargetIgnoresCount(sc) == "Processed"

\* line 170: the routing decision
RouteTarget(sc) == IF sc > 0 THEN "Processed" ELSE "Error"

\* _moveFile: file.moveTo either moves the file or throws, which is logged
\* and swallowed
MoveFile(f, target, moved) ==
  /\ routed' = [routed EXCEPT ![f] = target]
  /\ folder' = IF moved THEN [folder EXCEPT ![f] = target] ELSE folder

Init ==
  /\ apiDef \in {1, 2}
  /\ entry = "none"
  /\ pc = "idle"
  /\ files = 0
  /\ fileIdx = 0
  /\ folder = [f \in Files |-> "Inbox"]
  /\ routed = [f \in Files |-> "none"]
  /\ path = "none"
  /\ parsed = NoParse
  /\ logger = NoLogger
  /\ successCount = 0
  /\ errorCount = 0
  /\ rowIdx = 0
  /\ storeCodeMap = EmptyMap
  /\ listing = <<>>
  /\ pageToken = 0
  /\ listCalls = 0
  /\ rowOps = <<>>
  /\ imageRef = None
  /\ result = NoResult
  /\ restoreFailed = FALSE
  /\ lastPost = None
  /\ sharing \in [Assets -> SharingStates]
  /\ preSharing = sharing
  /\ runStart = sharing
  /\ delays = 0
  /\ exc = "none"
  /\ prevMap = None
  /\ execs = [e \in Execs |-> IdleExec]
  /\ handledBy = [f \in Files |-> {}]
  /\ calls = [e \in Execs |-> NoCall]
  /\ temp = NoTemp /\ cells = NoCells
  /\ triggers = NoTriggers /\ setup = NoSetup

\* what one execution working through its files never touches
sideVars == <<prevMap, execs, handledBy, calls, temp, cells,
triggers, setup, runStart>>
fileVars ==
  <<parsed, logger, successCount, errorCount, rowIdx, storeCodeMap, listing,
    pageToken, listCalls, rowOps, path, delays>>
callVars == <<imageRef, result, restoreFailed, lastPost, preSharing>>
driveVars == <<folder, routed>>

\* ------------------------------------------------------- entry points
\* processInboxFiles, lines 25-36: the scan finds n files of the listed types
ProcessInboxFiles ==
  /\ pc = "idle"
  /\ \E n \in 0..MaxFiles :
       /\ files' = n
       /\ fileIdx' = IF n = 0 THEN 0 ELSE 1
       /\ pc' = IF n = 0 THEN "done" ELSE "parse"
  /\ entry' = "inbox"
  /\ UNCHANGED <<apiDef, sideVars, fileVars, callVars, driveVars, sharing, exc>>

\* processFileById, lines 59-67: an empty id returns at once
ProcessFileById ==
  /\ pc = "idle"
  /\ \E fileId \in {"", "file1"} :
       /\ files' = IF fileId = "" THEN 0 ELSE 1
       /\ fileIdx' = IF fileId = "" THEN 0 ELSE 1
       /\ pc' = IF fileId = "" THEN "done" ELSE "parse"
  /\ entry' = "byId"
  /\ UNCHANGED <<apiDef, sideVars, fileVars, callVars, driveVars, sharing, exc>>

Throw(message) == pc' = "thrown" /\ exc' = message

\* ------------------------------------------------- _processOneFile, 75-114
\* what getValues / the CSV reader hands to _buildInputData, or a failure
Reads ==
  {[ok |-> FALSE, rows |-> <<>>]} \cup {[ok |-> TRUE, rows |-> g] : g \in GridPool}

\* line 76 for a file of the inbox scan (listed types only) and for a file
\* named by id (any type)
InboxParses == {parse(mime, read) : mime \in ListedMimes, read \in Reads}
ByIdParses == {parse(mime, read) : mime \in Mimes, read \in Reads}

\* a logger that goes on from the counters the previous logger reached
StartFileSharedStats ==
  /\ pc = "parse"
  /\ \E p \in (IF entry = "inbox" THEN InboxParses ELSE ByIdParses) :
       parsed' = p
  /\ \/ /\ logger' = [NewLogger EXCEPT !.stats = logger.stats]
        /\ pc' = "header"
        /\ exc' = "none"
     \/ /\ logger' = NoLogger
        /\ Throw("logger create failed")
  /\ successCount' = 0 /\ errorCount' = 0 /\ rowIdx' = 0
  /\ storeCodeMap' = EmptyMap /\ listing' = <<>> /\ pageToken' = 0
  /\ listCalls' = 0 /\ rowOps' = <<>> /\ path' = "none" /\ delays' = 0
  /\ imageRef' = None /\ result' = NoResult /\ restoreFailed' = FALSE
  /\ lastPost' = None /\ preSharing' = sharing
  /\ UNCHANGED <<apiDef, sideVars, entry, files, fileIdx, driveVars, sharing>>

\* lines 76-80: parse the file, create its logger
StartFile ==
  /\ pc = "parse"
  /\ \E p \in (IF entry = "inbox" THEN InboxParses ELSE ByIdParses) :
       parsed' = p
  /\ \/ /\ logger' = NewLogger
        /\ pc' = "header"
        /\ exc' = "none"
     \/ /\ logger' = NoLogger
        /\ Throw("logger create failed")
  /\ successCount' = 0 /\ errorCount' = 0 /\ rowIdx' = 0
  /\ storeCodeMap' = EmptyMap /\ listing' = <<>> /\ pageToken' = 0
  /\ listCalls' = 0 /\ rowOps' = <<>> /\ path' = "none" /\ delays' = 0
  /\ imageRef' = None /\ result' = NoResult /\ restoreFailed' = FALSE
  /\ lastPost' = None /\ preSharing' = sharing
  /\ UNCHANGED <<apiDef, sideVars, entry, files, fileIdx, driveVars, sharing>>

\* lines 83-88 with a test that takes any parse error for fatal
RecordHeaderErrorsAllFatal ==
  /\ pc = "header"
  /\ LET n == Len(parsed.errors)
     IN  \E j \in 1..(n + 1) :
           IF j <= n
           THEN /\ logger' = addHeaderErrorThrows(
                               AddHeaderErrors(logger, parsed.errors, j - 1))
                /\ Throw("logger write failed")
           ELSE /\ logger' = AddHeaderErrors(logger, parsed.errors, n)
                /\ pc' = IF n > 0 THEN "fatal" ELSE "map"
                /\ exc' = exc
  /\ UNCHANGED <<apiDef, sideVars, entry, files, fileIdx, driveVars, parsed,
                 successCount, errorCount, rowIdx, storeCodeMap, listing,
                 pageToken, listCalls, rowOps, path, delays, callVars, sharing>>

\* lines 83-88 and the test of line 89: every parse error becomes a header
\* error; the j-th addHeaderError call may throw
RecordHeaderErrors ==
  /\ pc = "header"
  /\ LET n == Len(parsed.errors)
     IN  \E j \in 1..(n + 1) :
           IF j <= n
           THEN /\ logger' = addHeaderErrorThrows(
                               AddHeaderErrors(logger, parsed.errors, j - 1))
                /\ Throw("logger write failed")
           ELSE /\ logger' = AddHeaderErrors(logger, parsed.errors, n)
                /\ pc' = IF parsed.header = None THEN "fatal" ELSE "map"
                /\ exc' = exc
  /\ UNCHANGED <<apiDef, sideVars, entry, files, fileIdx, driveVars, parsed,
                 successCount, errorCount, rowIdx, storeCodeMap, listing,
                 pageToken, listCalls, rowOps, path, delays, callVars, sharing>>

\* lines 89-94 without the finalize, the move and the return
FatalHeaderFallsThrough ==
  /\ pc = "fatal"
  /\ pc' = "map"
  /\ UNCHANGED <<apiDef, sideVars, entry, files, fileIdx, parsed, successCount,
                 errorCount, rowIdx, storeCodeMap, listing, pageToken,
                 listCalls, rowOps, delays, callVars, sharing, logger,
                 driveVars, path, exc>>

\* lines 89-94: no header, so finalize, move to Error, return
FatalHeader ==
  /\ pc = "fatal"
  /\ \/ /\ Throw("finalize failed")
        /\ UNCHANGED <<logger, driveVars, path>>
     \/ /\ logger' = finalize(logger)
        /\ \E moved \in BOOLEAN : MoveFile(fileIdx, "Error", moved)
        /\ path' = "fatal"
        /\ pc' = "fileDone"
        /\ exc' = exc
  /\ UNCHANGED <<apiDef, sideVars, entry, files, fileIdx, parsed, successCount,
                 errorCount, rowIdx, storeCodeMap, listing, pageToken,
                 listCalls, rowOps, delays, callVars, sharing>>

\* map[loc.storeCode] = loc.name on the object literal of line 317: the key
\* "__proto__" names the inherited accessor, and a string stored through
\* it changes nothing, so the map gets no such entry
Storable(storeCode) == storeCode # "__proto__"

\* buildStoreCodeMap, the forEach of lines 330-339
AddLocations(map, locations) ==
  LET declared == {i \in 1..Len(locations) :
                     /\ locations[i].storeCode # ""
                     /\ Storable(locations[i].storeCode)}
      codes == {locations[i].storeCode : i \in declared}
  IN  [c \in DOMAIN map \cup codes |->
         IF c \in codes
         THEN locations[CHOOSE i \in declared :
                          /\ locations[i].storeCode = c
                          /\ \A j \in declared :
                               locations[j].storeCode = c => j <= i].name
         ELSE map[c]]

\* buildStoreCodeMap, one turn of the do-while with a 2xx response
FetchPage ==
  /\ pc = "map"
  /\ \E pages \in (IF listing = <<>> THEN Listings ELSE {listing}) :
       /\ listing' = pages
       /\ storeCodeMap' = AddLocations(storeCodeMap, pages[pageToken + 1])
       /\ pageToken' = IF pageToken + 1 < Len(pages) THEN pageToken + 1 ELSE 0
       /\ pc' = IF pageToken + 1 < Len(pages) THEN "map" ELSE "rows"
  /\ listCalls' = listCalls + 1
  /\ rowIdx' = 1
  /\ UNCHANGED <<apiDef, sideVars, entry, files, fileIdx, driveVars, parsed, logger,
                 successCount, errorCount, rowOps, path, delays, callVars,
                 sharing, exc>>

\* lines 107-113 with the header error recorded and nothing else: the row
\* loop runs on an empty map
FetchPageFailsSwallowed ==
  /\ pc = "map"
  /\ listCalls' = listCalls + 1
  /\ listing' = listing
  /\ storeCodeMap' = EmptyMap
  /\ pageToken' = 0
  /\ rowIdx' = 1
  /\ logger' = addHeaderError(logger, "location listing failed")
  /\ pc' = "rows"
  /\ UNCHANGED <<apiDef, sideVars, entry, files, fileIdx, parsed, successCount,
                 errorCount, rowOps, delays, callVars, sharing, driveVars,
                 path, exc>>

\* buildStoreCodeMap throws (the fetch, or _parse on a non-2xx response);
\* lines 107-113: one header error, finalize, move to Error, return
FetchPageFails ==
  /\ pc = "map"
  /\ listCalls' = listCalls + 1
  /\ listing' = listing
  /\ storeCodeMap' = EmptyMap
  /\ pageToken' = 0
  /\ \/ /\ logger' = addHeaderErrorThrows(logger)
        /\ Throw("logger write failed")
        /\ UNCHANGED <<driveVars, path>>
     \/ /\ logger' = addHeaderError(logger, "location listing failed")
        /\ Throw("finalize failed")
        /\ UNCHANGED <<driveVars, path>>
     \/ /\ logger' = finalize(addHeaderError(logger, "location listing failed"))
        /\ \E moved \in BOOLEAN : MoveFile(fileIdx, "Error", moved)
        /\ path' = "mapFailed"
        /\ pc' = "fileDone"
        /\ exc' = exc
  /\ UNCHANGED <<apiDef, sideVars, entry, files, fileIdx, parsed, successCount,
                 errorCount, rowIdx, rowOps, delays, callVars, sharing>>

\* line 101
accountName ==
  IF parsed.header = None THEN ""
  ELSE _normalizeAccountName(parsed.header[1]["googleAccountId"])

\* ---------------------------------------------------------- ProductsApi
\* names every object inherits from Object.prototype: storeCodeMap[name] is
\* a function or object (truthy) although the map holds no such store code
ObjectPrototypeKeys ==
  {"constructor", "toString", "valueOf", "hasOwnProperty", "__proto__"}
InheritedMember == "[Object.prototype member]"

\* findLocationName: storeCodeMap[storeCode] || null
findLocationName(storeCode, map) ==
  IF storeCode \in DOMAIN map
  THEN IF map[storeCode] # "" THEN map[storeCode] ELSE NULL
  ELSE IF storeCode \in ObjectPrototypeKeys THEN InheritedMember
  ELSE NULL

\* _resolveFile (second definition): URL id, then bare id, then path
_resolveFile(imagePath) ==
  LET byUrl == IF UrlMatch(imagePath) # NULL
               THEN DriveFileById(UrlMatch(imagePath)) ELSE NULL
      byId  == IF byUrl = NULL /\ IsIdShape(imagePath)
               THEN DriveFileById(imagePath) ELSE byUrl
  IN  IF byId = NULL THEN DriveFileByPath(imagePath) ELSE byId

\* the resolution inside prepareImageUrl (first definition), lines 101-117
resolveFileV1(imagePath) ==
  LET byUrl == IF UrlMatch(imagePath) # NULL
               THEN DriveFileById(UrlMatch(imagePath)) ELSE NULL
      byId  == IF byUrl = NULL THEN DriveFileById(imagePath) ELSE byUrl
  IN  IF byId = NULL /\ HasSlash(imagePath)
      THEN DriveFileByPath(imagePath) ELSE byId

ResolveImage(imagePath) ==
  IF apiDef = 1 THEN resolveFileV1(imagePath) ELSE _resolveFile(imagePath)

\* 'https://drive.google.com/uc?export=download&id=' + file.getId()
DownloadUrl(file) == <<"uc?export=download&id=", file>>

\* the handle prepareImageUrl returns; the first definition records no
\* original sharing state
Handle(file) ==
  IF apiDef = 1
  THEN [file |-> file, url |-> DownloadUrl(file),
        origAccess |-> "undefined", origPermission |-> "undefined"]
  ELSE [file |-> file, url |-> DownloadUrl(file),
        origAccess |-> sharing[file].access,
        origPermission |-> sharing[file].permission]

\* what the finally block writes back: the second definition
\* (restoreImageSharing) the recorded values, the first PRIVATE / NONE
RestoreValue(ref) ==
  IF apiDef = 1 THEN Private
  ELSE [access |-> ref.origAccess, permission |-> ref.origPermission]

\* a payload builder that leaves the image out
_buildLocalPostNoMedia(d, imageUrl) ==
  [summary |-> d.description,
   name |-> d.productName,
   category |-> d.productCategory,
   price |-> IF d.price > 0
             THEN Some([currencyCode |-> "JPY", units |-> d.price \div 100])
             ELSE None,
   callToAction |->
     IF d.buttonTypeApi # "" /\ d.landingPageUrl # ""
     THEN Some([actionType |-> d.buttonTypeApi, url |-> d.landingPageUrl])
     ELSE IF d.buttonTypeApi = "" /\ d.landingPageUrl # ""
     THEN Some([actionType |-> "LEARN_MORE", url |-> d.landingPageUrl])
     ELSE None,
   media |-> None]

\* a payload builder that writes the price block whatever the price
_buildLocalPostPriceAlways(d, imageUrl) ==
  [summary |-> d.description,
   name |-> d.productName,
   category |-> d.productCategory,
   price |-> Some([currencyCode |-> "JPY", units |-> d.price \div 100]),
   callToAction |->
     IF d.buttonTypeApi # "" /\ d.landingPageUrl # ""
     THEN Some([actionType |-> d.buttonTypeApi, url |-> d.landingPageUrl])
     ELSE IF d.buttonTypeApi = "" /\ d.landingPageUrl # ""
     THEN Some([actionType |-> "LEARN_MORE", url |-> d.landingPageUrl])
     ELSE None,
   media |-> IF imageUrl # None
             THEN Some([mediaFormat |-> "PHOTO", sourceUrl |-> imageUrl[1]])
             ELSE None]

\* _buildLocalPost; prices are held in hundredths, units is Math.floor(price)
_buildLocalPost(d, imageUrl) ==
  [summary |-> d.description,
   name |-> d.productName,
   category |-> d.productCategory,
   price |-> IF d.price > 0
             THEN Some([currencyCode |-> "JPY", units |-> d.price \div 100])
             ELSE None,
   callToAction |->
     IF d.buttonTypeApi # "" /\ d.landingPageUrl # ""
     THEN Some([actionType |-> d.buttonTypeApi, url |-> d.landingPageUrl])
     ELSE IF d.buttonTypeApi = "" /\ d.landingPageUrl # ""
     THEN Some([actionType |-> "LEARN_MORE", url |-> d.landingPageUrl])
     ELSE None,
   media |-> IF imageUrl # None
             THEN Some([mediaFormat |-> "PHOTO", sourceUrl |-> imageUrl[1]])
             ELSE None]

\* ------------------------------------------------ the row loop, 123-162
item == parsed.details[rowIdx]

InLoop == pc = "rows" /\ rowIdx <= Len(parsed.details)

NewRowOp(rowNum, lookup) ==
  [rowNum |-> rowNum, lookup |-> lookup, exposed |-> FALSE,
   posted |-> "none", requests |-> 0, restores |-> 0, restoreFailed |-> FALSE]

\* errors.join(' / '): the messages in order
JoinErrors(errors) == [i \in 1..Len(errors) |-> errors[i].msg]

\* lines 128-134 leaving the loop instead of the callback
RowInvalidEndsLoop ==
  /\ InLoop
  /\ Len(item.errors) > 0
  /\ rowOps' = Append(rowOps, NewRowOp(item.rowNum, FALSE))
  /\ logger' = addRow(logger, item.data, "ERROR", "", JoinErrors(item.errors))
  /\ errorCount' = errorCount + 1
  /\ rowIdx' = Len(parsed.details) + 1
  /\ UNCHANGED <<pc, exc>>
  /\ UNCHANGED <<apiDef, sideVars, entry, files, fileIdx, driveVars, parsed,
                 successCount, storeCodeMap, listing, pageToken, listCalls,
                 path, delays, callVars, sharing>>

\* lines 128-134: a row with validation errors is recorded and skipped
RowInvalid ==
  /\ InLoop
  /\ Len(item.errors) > 0
  /\ rowOps' = Append(rowOps, NewRowOp(item.rowNum, FALSE))
  /\ \/ /\ logger' = addRow(logger, item.data, "ERROR", "", JoinErrors(item.errors))
        /\ errorCount' = errorCount + 1
        /\ rowIdx' = rowIdx + 1
        /\ UNCHANGED <<pc, exc>>
     \/ /\ logger' = addRowThrows(logger, "ERROR")
        /\ Throw("logger write failed")
        /\ UNCHANGED <<errorCount, rowIdx>>
  /\ UNCHANGED <<apiDef, sideVars, entry, files, fileIdx, driveVars, parsed,
                 successCount, storeCodeMap, listing, pageToken, listCalls,
                 path, delays, callVars, sharing>>

\* a row without a location that is followed by the sleep all the same
RowNotFoundSleeps ==
  /\ InLoop
  /\ Len(item.errors) = 0
  /\ findLocationName(item.data.storeCode, storeCodeMap) = NULL
  /\ rowOps' = Append(rowOps, NewRowOp(item.rowNum, TRUE))
  /\ \/ /\ logger' = addRow(logger, item.data, "ERROR", "", <<"location not found">>)
        /\ errorCount' = errorCount + 1
        /\ rowIdx' = rowIdx + 1
        /\ delays' = delays + 1
        /\ UNCHANGED <<pc, exc>>
     \/ /\ logger' = addRowThrows(logger, "ERROR")
        /\ Throw("logger write failed")
        /\ UNCHANGED <<errorCount, rowIdx, delays>>
  /\ UNCHANGED <<apiDef, sideVars, entry, files, fileIdx, driveVars, parsed,
                 successCount, storeCodeMap, listing, pageToken, listCalls,
                 path, callVars, sharing>>

\* lines 137-145: no location for the store code
RowNotFound ==
  /\ InLoop
  /\ Len(item.errors) = 0
  /\ findLocationName(item.data.storeCode, storeCodeMap) = NULL
  /\ rowOps' = Append(rowOps, NewRowOp(item.rowNum, TRUE))
  /\ \/ /\ logger' = addRow(logger, item.data, "ERROR", "", <<"location not found">>)
        /\ errorCount' = errorCount + 1
        /\ rowIdx' = rowIdx + 1
        /\ UNCHANGED <<pc, exc>>
     \/ /\ logger' = addRowThrows(logger, "ERROR")
        /\ Throw("logger write failed")
        /\ UNCHANGED <<errorCount, rowIdx>>
  /\ UNCHANGED <<apiDef, sideVars, entry, files, fileIdx, driveVars, parsed,
                 successCount, storeCodeMap, listing, pageToken, listCalls,
                 path, delays, callVars, sharing>>

ImageNotFound(imagePath) ==
  IF apiDef = 1
  THEN <<"image preparation failed", "image not found", imagePath>>
  ELSE <<"image not found", imagePath>>

SharingFailed ==
  IF apiDef = 1
  THEN <<"image preparation failed", "setSharing failed">>
  ELSE <<"setSharing failed">>

\* a createProduct that sends the request without the image when the
\* image cannot be found
CreateProductPrepareIgnoresMissing ==
  /\ InLoop
  /\ Len(item.errors) = 0
  /\ findLocationName(item.data.storeCode, storeCodeMap) # NULL
  /\ preSharing' = sharing
  /\ restoreFailed' = FALSE
  /\ lastPost' = lastPost
  /\ LET imagePath == item.data.imagePath
         file == ResolveImage(imagePath)
         op == NewRowOp(item.rowNum, TRUE)
     IN  \/ /\ imagePath = "" \/ file = NULL
            /\ imageRef' = None
            /\ result' = NoResult
            /\ rowOps' = Append(rowOps, op)
            /\ pc' = "post"
            /\ UNCHANGED sharing
         \/ /\ imagePath # "" /\ file # NULL
            /\ imageRef' = None
            /\ result' = [ok |-> FALSE, name |-> "", message |-> SharingFailed]
            /\ rowOps' = Append(rowOps, op)
            /\ pc' = "record"
            /\ UNCHANGED sharing
         \/ /\ imagePath # "" /\ file # NULL
            /\ imageRef' = Some(Handle(file))
            /\ result' = NoResult
            /\ sharing' = [sharing EXCEPT ![file] = Public]
            /\ rowOps' = Append(rowOps, [op EXCEPT !.exposed = TRUE])
            /\ pc' = "post"
  /\ UNCHANGED <<apiDef, sideVars, entry, files, fileIdx, driveVars, parsed, logger,
                 successCount, errorCount, rowIdx, storeCodeMap, listing,
                 pageToken, listCalls, path, delays, exc>>

\* createProduct up to the try block (lines 492-497, first definition
\* 159-168): prepareImageUrl when the row names an image
CreateProductPrepare ==
  /\ InLoop
  /\ Len(item.errors) = 0
  /\ findLocationName(item.data.storeCode, storeCodeMap) # NULL
  /\ preSharing' = sharing
  /\ restoreFailed' = FALSE
  /\ lastPost' = lastPost
  /\ LET imagePath == item.data.imagePath
         file == ResolveImage(imagePath)
         op == NewRowOp(item.rowNum, TRUE)
     IN  \/ /\ imagePath = ""
            /\ imageRef' = None
            /\ result' = NoResult
            /\ rowOps' = Append(rowOps, op)
            /\ pc' = "post"
            /\ UNCHANGED sharing
         \/ /\ imagePath # "" /\ file = NULL
            /\ imageRef' = None
            /\ result' = [ok |-> FALSE, name |-> "",
                          message |-> ImageNotFound(imagePath)]
            /\ rowOps' = Append(rowOps, op)
            /\ pc' = "record"
            /\ UNCHANGED sharing
         \/ /\ imagePath # "" /\ file # NULL
            /\ imageRef' = None
            /\ result' = [ok |-> FALSE, name |-> "", message |-> SharingFailed]
            /\ rowOps' = Append(rowOps, op)
            /\ pc' = "record"
            /\ UNCHANGED sharing
         \/ /\ imagePath # "" /\ file # NULL
            /\ imageRef' = Some(Handle(file))
            /\ result' = NoResult
            /\ sharing' = [sharing EXCEPT ![file] = Public]
            /\ rowOps' = Append(rowOps, [op EXCEPT !.exposed = TRUE])
            /\ pc' = "post"
  /\ UNCHANGED <<apiDef, sideVars, entry, files, fileIdx, driveVars, parsed, logger,
                 successCount, errorCount, rowIdx, storeCodeMap, listing,
                 pageToken, listCalls, path, delays, exc>>

\* the row the pending operation record belongs to
SetLastOp(ops, field, value) == [ops EXCEPT ![Len(ops)][field] = value]

\* the request counted on the operation record of the row
Requested(ops, outcome) ==
  SetLastOp(SetLastOp(ops, "requests", ops[Len(ops)].requests + 1),
            "posted", outcome)

\* a createProduct that sends the request once more when it failed
CreateProductPostRetries ==
  /\ pc = "post"
  /\ lastPost' = Some(_buildLocalPost(
                        item.data,
                        IF imageRef = None THEN None ELSE Some(imageRef[1].url)))
  /\ \/ /\ findLocationName(item.data.storeCode, storeCodeMap) # InheritedMember
        /\ result' = [ok |-> TRUE, name |-> "localPosts/1", message |-> <<>>]
        /\ rowOps' = Requested(rowOps, "ok")
        /\ pc' = "restore"
     \/ /\ result' = [ok |-> FALSE, name |-> "",
                      message |-> <<"[createProduct] HTTP error">>]
        /\ rowOps' = Requested(rowOps, "failed")
        /\ pc' = IF rowOps[Len(rowOps)].requests = 0 THEN "post" ELSE "restore"
  /\ UNCHANGED <<apiDef, sideVars, entry, files, fileIdx, driveVars, parsed, logger,
                 successCount, errorCount, rowIdx, storeCodeMap, listing,
                 pageToken, listCalls, path, delays, imageRef, restoreFailed,
                 preSharing, sharing, exc>>

\* lines 500-503: build the payload, POST it, parse the response.  A
\* location that is an inherited member names no resource: the call fails.
CreateProductPost ==
  /\ pc = "post"
  /\ lastPost' = Some(_buildLocalPost(
                        item.data,
                        IF imageRef = None THEN None ELSE Some(imageRef[1].url)))
  /\ \/ /\ findLocationName(item.data.storeCode, storeCodeMap) # InheritedMember
        /\ result' = [ok |-> TRUE, name |-> "localPosts/1", message |-> <<>>]
        /\ rowOps' = Requested(rowOps, "ok")
     \/ /\ result' = [ok |-> FALSE, name |-> "",
                      message |-> <<"[createProduct] HTTP error">>]
        /\ rowOps' = Requested(rowOps, "failed")
  /\ pc' = "restore"
  /\ UNCHANGED <<apiDef, sideVars, entry, files, fileIdx, driveVars, parsed, logger,
                 successCount, errorCount, rowIdx, storeCodeMap, listing,
                 pageToken, listCalls, path, delays, imageRef, restoreFailed,
                 preSharing, sharing, exc>>

\* a finally block that restores nothing
restoreSkipped(ref) ==
  UNCHANGED <<sharing, restoreFailed, rowOps, result>>

\* restoreImageSharing without its try/catch: the setSharing failure
\* replaces the outcome of the call
restorePropagates(ref) ==
  \/ /\ ref = None
     /\ UNCHANGED <<sharing, restoreFailed, rowOps, result>>
  \/ /\ ref # None
     /\ \/ /\ sharing' = [sharing EXCEPT ![ref[1].file] = RestoreValue(ref[1])]
           /\ rowOps' = SetLastOp(rowOps, "restores",
                                  rowOps[Len(rowOps)].restores + 1)
           /\ UNCHANGED <<restoreFailed, result>>
        \/ /\ restoreFailed' = TRUE
           /\ rowOps' = SetLastOp(
                          SetLastOp(rowOps, "restores",
                                    rowOps[Len(rowOps)].restores + 1),
                          "restoreFailed", TRUE)
           /\ result' = [ok |-> FALSE, name |-> "",
                         message |-> <<"setSharing failed">>]
           /\ UNCHANGED sharing

\* restoreImageSharing (lines 409-416; in the first definition the finally
\* block of lines 180-192): no handle, nothing to do; else one setSharing
\* call, whose failure is logged and swallowed
restoreImageSharing(ref) ==
  \/ /\ ref = None
     /\ UNCHANGED <<sharing, restoreFailed, rowOps, result>>
  \/ /\ ref # None
     /\ \/ /\ sharing' = [sharing EXCEPT ![ref[1].file] = RestoreValue(ref[1])]
           /\ rowOps' = SetLastOp(rowOps, "restores",
                                  rowOps[Len(rowOps)].restores + 1)
           /\ UNCHANGED <<restoreFailed, result>>
        \/ /\ restoreFailed' = TRUE
           /\ rowOps' = SetLastOp(
                          SetLastOp(rowOps, "restores",
                                    rowOps[Len(rowOps)].restores + 1),
                          "restoreFailed", TRUE)
           /\ UNCHANGED <<sharing, result>>

\* the finally block of createProduct, lines 505-508 (first definition
\* 180-192), after which the call returns or rethrows
CreateProductRestore ==
  /\ pc = "restore"
  /\ restoreImageSharing(imageRef)
  /\ pc' = "record"
  /\ UNCHANGED <<apiDef, sideVars, entry, files, fileIdx, driveVars, parsed, logger,
                 successCount, errorCount, rowIdx, storeCodeMap, listing,
                 pageToken, listCalls, path, delays, imageRef,
                 lastPost, preSharing, exc>>

\* the locals of a finished createProduct call are gone
EndOfCall ==
  /\ imageRef' = None /\ result' = NoResult /\ restoreFailed' = FALSE
  /\ lastPost' = None /\ preSharing' = sharing

\* lines 150-161: createProduct returned or threw; record the row, sleep.
\* The SUCCESS addRow call sits inside the try block: when it throws, the
\* catch block records the same row as ERROR with the logger's message.
RecordResult ==
  /\ pc = "record"
  /\ \/ /\ result.ok
        /\ logger' = addRow(logger, item.data, "SUCCESS", result.name, <<>>)
        /\ successCount' = successCount + 1
        /\ UNCHANGED errorCount
        /\ pc' = "rows" /\ rowIdx' = rowIdx + 1 /\ delays' = delays + 1
        /\ exc' = exc
        /\ EndOfCall
     \/ /\ result.ok
        /\ logger' = addRow(addRowThrows(logger, "SUCCESS"), item.data, "ERROR",
                            "", <<"logger write failed">>)
        /\ errorCount' = errorCount + 1
        /\ UNCHANGED successCount
        /\ pc' = "rows" /\ rowIdx' = rowIdx + 1 /\ delays' = delays + 1
        /\ exc' = exc
        /\ EndOfCall
     \/ /\ result.ok
        /\ logger' = addRowThrows(addRowThrows(logger, "SUCCESS"), "ERROR")
        /\ Throw("logger write failed")
        /\ UNCHANGED <<successCount, errorCount, rowIdx, delays, callVars>>
     \/ /\ ~result.ok
        /\ logger' = addRow(logger, item.data, "ERROR", "", result.message)
        /\ errorCount' = errorCount + 1
        /\ UNCHANGED successCount
        /\ pc' = "rows" /\ rowIdx' = rowIdx + 1 /\ delays' = delays + 1
        /\ exc' = exc
        /\ EndOfCall
     \/ /\ ~result.ok
        /\ logger' = addRowThrows(logger, "ERROR")
        /\ Throw("logger write failed")
        /\ UNCHANGED <<successCount, errorCount, rowIdx, delays, callVars>>
  /\ UNCHANGED <<apiDef, sideVars, entry, files, fileIdx, driveVars, parsed,
                 storeCodeMap, listing, pageToken, listCalls, rowOps, path,
                 sharing>>

\* a routing step that sends a file without failed rows to Processed
FinalizeAndRouteByErrors ==
  /\ pc = "rows"
  /\ rowIdx > Len(parsed.details)
  /\ \/ /\ Throw("finalize failed")
        /\ UNCHANGED <<logger, driveVars, path>>
     \/ /\ logger' = finalize(logger)
        /\ \E moved \in BOOLEAN :
             MoveFile(fileIdx, IF errorCount = 0 THEN "Processed" ELSE "Error",
                      moved)
        /\ path' = "loop"
        /\ pc' = "fileDone"
        /\ exc' = exc
  /\ UNCHANGED <<apiDef, sideVars, entry, files, fileIdx, parsed, successCount,
                 errorCount, rowIdx, storeCodeMap, listing, pageToken,
                 listCalls, rowOps, delays, callVars, sharing>>

\* a routing step that moves the file without closing its log
FinalizeAndRouteNoFinalize ==
  /\ pc = "rows"
  /\ rowIdx > Len(parsed.details)
  /\ \E moved \in BOOLEAN :
       MoveFile(fileIdx, RouteTarget(successCount), moved)
  /\ path' = "loop"
  /\ pc' = "fileDone"
  /\ UNCHANGED <<apiDef, sideVars, entry, files, fileIdx, parsed, successCount,
                 errorCount, rowIdx, storeCodeMap, listing, pageToken,
                 listCalls, rowOps, delays, callVars, sharing, logger, exc>>

\* lines 165-172: finalize, then route by successCount
FinalizeAndRoute ==
  /\ pc = "rows"
  /\ rowIdx > Len(parsed.details)
  /\ \/ /\ Throw("finalize failed")
        /\ UNCHANGED <<logger, driveVars, path>>
     \/ /\ logger' = finalize(logger)
        /\ \E moved \in BOOLEAN :
             MoveFile(fileIdx, RouteTarget(successCount), moved)
        /\ path' = "loop"
        /\ pc' = "fileDone"
        /\ exc' = exc
  /\ UNCHANGED <<apiDef, sideVars, entry, files, fileIdx, parsed, successCount,
                 errorCount, rowIdx, storeCodeMap, listing, pageToken,
                 listCalls, rowOps, delays, callVars, sharing>>

\* ------------------------------------- the file boundary, lines 38-50
\* a catch that moves the file to Error and then leaves the forEach
CatchAtFileBoundaryEndsRun ==
  /\ pc = "thrown"
  /\ entry = "inbox"
  /\ \E moved \in BOOLEAN : MoveFile(fileIdx, "Error", moved)
  /\ path' = "caught"
  /\ pc' = "done"
  /\ UNCHANGED <<apiDef, sideVars, entry, files, fileIdx, parsed, logger,
                 successCount, errorCount, rowIdx, storeCodeMap, listing,
                 pageToken, listCalls, rowOps, delays, callVars, sharing, exc>>

\* the catch of processInboxFiles: log, move the file to Error
CatchAtFileBoundary ==
  /\ pc = "thrown"
  /\ entry = "inbox"
  /\ \E moved \in BOOLEAN : MoveFile(fileIdx, "Error", moved)
  /\ path' = "caught"
  /\ pc' = "fileDone"
  /\ UNCHANGED <<apiDef, sideVars, entry, files, fileIdx, parsed, logger, successCount,
                 errorCount, rowIdx, storeCodeMap, listing, pageToken,
                 listCalls, rowOps, delays, callVars, sharing, exc>>

\* processFileById has no handler: the exception ends the script
EscapeFromFileById ==
  /\ pc = "thrown"
  /\ entry = "byId"
  /\ path' = "escaped"
  /\ pc' = "crashed"
  /\ UNCHANGED <<apiDef, sideVars, entry, files, fileIdx, driveVars, parsed, logger,
                 successCount, errorCount, rowIdx, storeCodeMap, listing,
                 pageToken, listCalls, rowOps, delays, callVars, sharing, exc>>

\* a step to the next file that carries the location map over
NextFileKeepsMap ==
  /\ pc = "fileDone"
  /\ IF entry = "inbox" /\ fileIdx < files
     THEN fileIdx' = fileIdx + 1 /\ pc' = "parse"
     ELSE fileIdx' = fileIdx /\ pc' = "done"
  /\ parsed' = NoParse
  /\ logger' = [NoLogger EXCEPT !.stats = logger.stats]
  /\ successCount' = 0 /\ errorCount' = 0 /\ rowIdx' = 0
  /\ pageToken' = 0
  /\ rowOps' = <<>> /\ path' = path /\ delays' = 0
  /\ exc' = "none"
  /\ EndOfCall
  /\ UNCHANGED <<apiDef, sideVars, entry, files, driveVars, sharing,
                 storeCodeMap, listing, listCalls>>

\* forEach moves on (after the 2 s pause) or the run ends; the locals of
\* the finished _processOneFile call are gone.  What is left of the file is
\* how it ended and the counters its logger reached, until the next file
\* starts
NextFile ==
  /\ pc = "fileDone"
  /\ IF entry = "inbox" /\ fileIdx < files
     THEN fileIdx' = fileIdx + 1 /\ pc' = "parse"
     ELSE fileIdx' = fileIdx /\ pc' = "done"
  /\ parsed' = NoParse
  /\ logger' = [NoLogger EXCEPT !.stats = logger.stats]
  /\ successCount' = 0 /\ errorCount' = 0 /\ rowIdx' = 0
  /\ storeCodeMap' = EmptyMap /\ listing' = <<>> /\ pageToken' = 0
  /\ listCalls' = 0 /\ rowOps' = <<>> /\ path' = path /\ delays' = 0
  /\ exc' = "none"
  /\ EndOfCall
  /\ UNCHANGED <<apiDef, sideVars, entry, files, driveVars, sharing>>

\* -------------------------------------------- GBPApi.uploadMedia, 384-418
\* lines 385-387: look the file up and record its sharing state
UploadMediaStart ==
  /\ pc = "idle"
  /\ entry' = "upload"
  /\ \E file \in Assets :
       \/ /\ imageRef' = Some([file |-> file, url |-> DownloadUrl(file),
                               origAccess |-> sharing[file].access,
                               origPermission |-> sharing[file].permission])
          /\ pc' = "umExpose"
       \/ /\ imageRef' = None
          /\ pc' = "crashed"
  /\ preSharing' = sharing
  /\ UNCHANGED <<apiDef, sideVars, files, fileIdx, driveVars, fileVars, result,
                 restoreFailed, lastPost, sharing, exc>>

\* line 391: setSharing inside the try block
UploadMediaExpose ==
  /\ pc = "umExpose"
  /\ \/ /\ sharing' = [sharing EXCEPT ![imageRef[1].file] = Public]
        /\ pc' = "umPost"
        /\ UNCHANGED result
     \/ /\ result' = [ok |-> FALSE, name |-> "", message |-> <<"setSharing failed">>]
        /\ pc' = "umRestore"
        /\ UNCHANGED sharing
  /\ UNCHANGED <<apiDef, sideVars, entry, files, fileIdx, driveVars, fileVars, imageRef,
                 restoreFailed, lastPost, preSharing, exc>>

\* lines 394-408: POST the media item
UploadMediaPost ==
  /\ pc = "umPost"
  /\ lastPost' = Some([mediaFormat |-> "PHOTO", sourceUrl |-> imageRef[1].url])
  /\ \/ result' = [ok |-> TRUE, name |-> "media/1", message |-> <<>>]
     \/ result' = [ok |-> FALSE, name |-> "", message |-> <<"[uploadMedia] HTTP error">>]
  /\ pc' = "umRestore"
  /\ UNCHANGED <<apiDef, sideVars, entry, files, fileIdx, driveVars, fileVars, imageRef,
                 restoreFailed, preSharing, sharing, exc>>

\* lines 410-417: the finally block
UploadMediaRestore ==
  /\ pc = "umRestore"
  /\ \/ /\ sharing' = [sharing EXCEPT ![imageRef[1].file] =
                         [access |-> imageRef[1].origAccess,
                          permission |-> imageRef[1].origPermission]]
        /\ UNCHANGED restoreFailed
     \/ /\ restoreFailed' = TRUE
        /\ UNCHANGED sharing
  /\ pc' = "done"
  /\ UNCHANGED <<apiDef, sideVars, entry, files, fileIdx, driveVars, fileVars, imageRef,
                 result, lastPost, preSharing, exc>>

Next ==
  \/ ProcessInboxFiles
  \/ ProcessFileById
  \/ StartFile
  \/ RecordHeaderErrors
  \/ FatalHeader
  \/ FetchPage
  \/ FetchPageFails
  \/ RowInvalid
  \/ RowNotFound
  \/ CreateProductPrepare
  \/ CreateProductPost
  \/ CreateProductRestore
  \/ RecordResult
  \/ FinalizeAndRoute
  \/ CatchAtFileBoundary
  \/ EscapeFromFileById
  \/ NextFile
  \/ UploadMediaStart
  \/ UploadMediaExpose
  \/ UploadMediaPost
  \/ UploadMediaRestore

Spec == Init /\ [][Next]_vars

\* =====================================================================
\* buildStoreCodeMap on its own: any listing, the call made twice
\* =====================================================================
\* pages the provider may serve
PagePool ==
  { <<>>,
    << [name |-> "accounts/1/locations/1", storeCode |-> "S1"] >>,
    << [name |-> "accounts/1/locations/3", storeCode |-> "S1"],
       [name |-> "accounts/1/locations/0", storeCode |-> ""] >>,
    << [name |-> "accounts/1/locations/2", storeCode |-> "S2"] >>,
    << [name |-> "accounts/1/locations/4", storeCode |-> "__proto__"] >> }

\* locations lo..hi of an account whose n-th location has store code n
PageOf(lo, hi) ==
  [k \in 1..(hi - lo + 1) |->
     [name |-> ToString(lo + k - 1), storeCode |-> ToString(lo + k - 1)]]

\* 250 locations served as pages of pageSize=100
BigListing == <<PageOf(1, 100), PageOf(101, 200), PageOf(201, 250)>>

MapListings ==
  UNION {[1..n -> PagePool] : n \in 1..MaxPages} \cup {ListingA, BigListing}

\* the variables no stand-alone specification touches
quietVars ==
  <<apiDef, files, fileIdx, path, parsed, successCount, errorCount, rowOps,
    imageRef, result, restoreFailed, lastPost, sharing, preSharing, delays>>

Quiet ==
  /\ apiDef = 2
  /\ files = 0 /\ fileIdx = 0 /\ path = "none" /\ parsed = NoParse
  /\ successCount = 0 /\ errorCount = 0 /\ rowOps = <<>>
  /\ imageRef = None /\ result = NoResult /\ restoreFailed = FALSE
  /\ lastPost = None
  /\ sharing = [a \in Assets |-> Private] /\ preSharing = sharing
  /\ runStart = sharing
  /\ delays = 0

MapInit ==
  /\ Quiet
  /\ entry = "map" /\ pc = "map"
  /\ listing \in MapListings
  /\ storeCodeMap = EmptyMap /\ pageToken = 0 /\ listCalls = 0
  /\ rowIdx = 0
  /\ prevMap = None
  /\ logger = NoLogger
  /\ folder = [f \in Files |-> "Inbox"]
  /\ routed = [f \in Files |-> "none"]
  /\ execs = [e \in Execs |-> IdleExec]
  /\ handledBy = [f \in Files |-> {}]
  /\ calls = [e \in Execs |-> NoCall]
  /\ temp = NoTemp /\ cells = NoCells
  /\ triggers = NoTriggers /\ setup = NoSetup
  /\ exc = "none"

\* UrlFetchApp.fetch throws, or _parse throws on a non-2xx response: the
\* call returns no map
FetchThrows ==
  /\ pc = "map"
  /\ entry = "map"
  /\ listCalls' = listCalls + 1
  /\ Throw("listing failed")
  /\ UNCHANGED <<quietVars, entry, listing, storeCodeMap, pageToken, rowIdx,
                 prevMap, logger, driveVars, execs, handledBy, calls, temp, cells,
                 triggers, setup, runStart>>

\* a second call that starts from the token the earlier call sent last
BuildAgainKeepsToken ==
  /\ pc = "rows"
  /\ entry = "map"
  /\ prevMap = None
  /\ prevMap' = Some(storeCodeMap)
  /\ storeCodeMap' = EmptyMap
  /\ pageToken' = Len(listing) - 1
  /\ listCalls' = 0
  /\ pc' = "map"
  /\ UNCHANGED <<quietVars, entry, listing, rowIdx, logger, driveVars, execs,
                 handledBy, calls, temp, cells, triggers, setup, runStart, exc>>

\* buildStoreCodeMap called again for the same account: lines 317-319 give
\* the call a map, a token and a page count of its own
BuildAgain ==
  /\ pc = "rows"
  /\ entry = "map"
  /\ prevMap = None
  /\ prevMap' = Some(storeCodeMap)
  /\ storeCodeMap' = EmptyMap
  /\ pageToken' = 0
  /\ listCalls' = 0
  /\ pc' = "map"
  /\ UNCHANGED <<quietVars, entry, listing, rowIdx, logger, driveVars, execs,
                 handledBy, calls, temp, cells, triggers, setup, runStart, exc>>

MapNext ==
  \/ FetchPage
  \/ FetchThrows
  \/ BuildAgain

MapSpec == MapInit /\ [][MapNext]_vars

\* =====================================================================
\* one ExecutionLogger instance on its own: any sequence of record calls
\* =====================================================================
LoggerInit ==
  /\ Quiet
  /\ entry = "logger" /\ pc = "logger"
  /\ logger = NewLogger
  /\ listing = <<>> /\ storeCodeMap = EmptyMap /\ pageToken = 0
  /\ listCalls = 0 /\ rowIdx = 0
  /\ prevMap = None
  /\ folder = [f \in Files |-> "Inbox"]
  /\ routed = [f \in Files |-> "none"]
  /\ execs = [e \in Execs |-> IdleExec]
  /\ handledBy = [f \in Files |-> {}]
  /\ calls = [e \in Execs |-> NoCall]
  /\ temp = NoTemp /\ cells = NoCells
  /\ triggers = NoTriggers /\ setup = NoSetup
  /\ exc = "none"

loggerFrame ==
  <<quietVars, entry, pc, listing, storeCodeMap, pageToken, listCalls, rowIdx,
    prevMap, driveVars, execs, handledBy, calls, temp, cells,
    triggers, setup, runStart, exc>>

\* addRow(detail, result, postId, message) with any result text; the write
\* to the sheet may throw after the counters were advanced
AddRowCall ==
  /\ pc = "logger"
  /\ logger.stats.total < MaxRecords
  /\ \E res \in {"SUCCESS", "SKIP", "ERROR", "WARN"} :
       LET detail == [rowNum |-> INPUT_DETAIL_HEADER_ROW + 1 + logger.stats.total,
                      storeCode |-> "S1"]
       IN  \/ logger' = addRow(logger, detail, res,
                               IF res = "SUCCESS" THEN "localPosts/1" ELSE "",
                               IF res = "SUCCESS" THEN <<>> ELSE <<"reason">>)
           \/ logger' = addRowThrows(logger, res)
  /\ UNCHANGED loggerFrame

\* addHeaderError(message)
AddHeaderErrorCall ==
  /\ pc = "logger"
  /\ logger.stats.total < MaxRecords
  /\ \/ logger' = addHeaderError(logger, "too few rows")
     \/ logger' = addHeaderErrorThrows(logger)
  /\ UNCHANGED loggerFrame

LoggerNext ==
  \/ AddRowCall
  \/ AddHeaderErrorCall

LoggerSpec == LoggerInit /\ [][LoggerNext]_vars

\* the same logger with finalize called after any record calls
FinalizeCall ==
  /\ pc = "logger"
  /\ logger' = finalize(logger)
  /\ pc' = "summary"
  /\ UNCHANGED <<quietVars, entry, listing, storeCodeMap, pageToken, listCalls,
                 rowIdx, prevMap, driveVars, execs, handledBy, calls, temp,
                 cells, triggers, setup, runStart, exc>>

SummaryNext ==
  \/ AddRowCall
  \/ AddHeaderErrorCall
  \/ FinalizeCall

SummarySpec == LoggerInit /\ [][SummaryNext]_vars

\* =====================================================================
\* executions of processInboxFiles that may overlap (a time-based trigger
\* and a manual start): each scans the inbox once and works through what
\* it found; _processOneFile is taken as one step with either outcome
\* =====================================================================
OverlapInit ==
  /\ Quiet
  /\ entry = "overlap" /\ pc = "overlap"
  /\ folder = [f \in Files |-> "Inbox"]
  /\ routed = [f \in Files |-> "none"]
  /\ execs = [e \in Execs |-> IdleExec]
  /\ handledBy = [f \in Files |-> {}]
  /\ calls = [e \in Execs |-> NoCall]
  /\ temp = NoTemp /\ cells = NoCells
  /\ triggers = NoTriggers /\ setup = NoSetup
  /\ logger = NoLogger
  /\ listing = <<>> /\ storeCodeMap = EmptyMap /\ pageToken = 0
  /\ listCalls = 0 /\ rowIdx = 0
  /\ prevMap = None
  /\ exc = "none"

overlapFrame ==
  <<quietVars, entry, pc, logger, listing, storeCodeMap, pageToken, listCalls,
    rowIdx, prevMap, calls, temp, cells, triggers, setup, runStart, exc>>

\* _listInboxFiles: the direct children of the inbox, in iterator order
InboxFiles ==
  LET inbox == {f \in Files : folder[f] = "Inbox"}
  IN  [k \in 1..Cardinality(inbox) |->
         CHOOSE f \in inbox : Cardinality({g \in inbox : g < f}) = k - 1]

\* lines 28-34: an execution lists the inbox; with nothing found it returns
ScanInbox ==
  /\ pc = "overlap"
  /\ \E e \in Execs :
       /\ execs[e].phase = "idle"
       /\ execs' = [execs EXCEPT ![e] =
            [phase |-> IF InboxFiles = <<>> THEN "done" ELSE "working",
             scanned |-> InboxFiles,
             at |-> IF InboxFiles = <<>> THEN 0 ELSE 1,
             after |-> {d \in Execs : execs[d].phase = "done"}]]
  /\ UNCHANGED <<overlapFrame, driveVars, handledBy>>

\* lines 38-50, one turn of the forEach: _processOneFile on the next file
\* the execution listed, which ends with _moveFile to Processed or Error,
\* or throws and has the catch call _moveFile with Error
ProcessListedFile ==
  /\ pc = "overlap"
  /\ \E e \in Execs :
       /\ execs[e].phase = "working"
       /\ LET f == execs[e].scanned[execs[e].at]
          IN  \E target \in {"Processed", "Error"}, moved \in BOOLEAN :
                /\ MoveFile(f, target, moved)
                /\ handledBy' = [handledBy EXCEPT ![f] =
                     @ \cup {[exec |-> e, target |-> target]}]
       /\ execs' = [execs EXCEPT
            ![e].at = @ + 1,
            ![e].phase = IF execs[e].at = Len(execs[e].scanned)
                         THEN "done" ELSE "working"]
  /\ UNCHANGED overlapFrame

OverlapNext ==
  \/ ScanInbox
  \/ ProcessListedFile

OverlapSpec == OverlapInit /\ [][OverlapNext]_vars

\* =====================================================================
\* publish calls of different executions on the same asset: createProduct
\* (second definition) and GBPApi.uploadMedia, each step a Drive or
\* provider call of its own
\* =====================================================================
TheAsset == CHOOSE a \in Assets : TRUE

ExposeInit ==
  /\ apiDef = 2
  /\ entry = "expose" /\ pc = "expose"
  /\ sharing \in [Assets -> SharingStates]
  /\ preSharing = sharing
  /\ runStart = sharing
  /\ calls \in {[e \in Execs |-> [NoCall EXCEPT !.kind = k[e], !.phase = "start"]] :
                  k \in [Execs -> {"createProduct", "uploadMedia"}]}
  /\ files = 0 /\ fileIdx = 0 /\ path = "none" /\ parsed = NoParse
  /\ successCount = 0 /\ errorCount = 0 /\ rowOps = <<>>
  /\ imageRef = None /\ result = NoResult /\ restoreFailed = FALSE
  /\ lastPost = None /\ delays = 0
  /\ folder = [f \in Files |-> "Inbox"]
  /\ routed = [f \in Files |-> "none"]
  /\ execs = [e \in Execs |-> IdleExec]
  /\ handledBy = [f \in Files |-> {}]
  /\ temp = NoTemp /\ cells = NoCells
  /\ triggers = NoTriggers /\ setup = NoSetup
  /\ logger = NoLogger
  /\ listing = <<>> /\ storeCodeMap = EmptyMap /\ pageToken = 0
  /\ listCalls = 0 /\ rowIdx = 0
  /\ prevMap = None
  /\ exc = "none"

exposeFrame ==
  <<apiDef, entry, pc, preSharing, files, fileIdx, path, parsed, successCount,
    errorCount, rowOps, imageRef, result, restoreFailed, lastPost, delays,
    driveVars, execs, handledBy, temp, cells,
    triggers, setup, runStart, logger, listing, storeCodeMap,
    pageToken, listCalls, rowIdx, prevMap, exc>>

\* getSharingAccess / getSharingPermission: ProductsApi.js 391-392,
\* ImageUploader.js 386-387
ReadSharing ==
  /\ pc = "expose"
  /\ \E e \in Execs :
       /\ calls[e].phase = "start"
       /\ calls' = [calls EXCEPT
            ![e].phase = "read",
            ![e].ref = Some([file |-> TheAsset, url |-> DownloadUrl(TheAsset),
                             origAccess |-> sharing[TheAsset].access,
                             origPermission |-> sharing[TheAsset].permission])]
  /\ UNCHANGED <<exposeFrame, sharing>>

\* setSharing(ANYONE_WITH_LINK, VIEW): ProductsApi.js 394, ImageUploader.js
\* 391.  When it throws, createProduct has no handle and its finally block
\* restores nothing; uploadMedia is inside its try and goes to its finally
SetPublic ==
  /\ pc = "expose"
  /\ \E e \in Execs :
       /\ calls[e].phase = "read"
       /\ \/ /\ sharing' = [sharing EXCEPT ![TheAsset] = Public]
             /\ calls' = [calls EXCEPT ![e].phase = "posting"]
          \/ /\ sharing' = sharing
             /\ calls' = [calls EXCEPT
                  ![e].threw = TRUE,
                  ![e].phase = IF calls[e].kind = "uploadMedia"
                               THEN "restoring" ELSE "done"]
  /\ UNCHANGED exposeFrame

\* the POST and the parse of its response: ProductsApi.js 500-503,
\* ImageUploader.js 405-406; the provider reads the asset through its URL
\* while the request is in flight
PublishRequest ==
  /\ pc = "expose"
  /\ \E e \in Execs :
       /\ calls[e].phase = "posting"
       /\ calls' = [calls EXCEPT ![e].phase = "restoring"]
  /\ UNCHANGED <<exposeFrame, sharing>>

\* the finally block: ProductsApi.js 409-416, ImageUploader.js 410-417.
\* A call whose request is in flight when the asset turns private is cut off
RestoreSharing ==
  /\ pc = "expose"
  /\ \E e \in Execs :
       /\ calls[e].phase = "restoring"
       /\ \/ /\ sharing' = [sharing EXCEPT ![TheAsset] =
                    [access |-> calls[e].ref[1].origAccess,
                     permission |-> calls[e].ref[1].origPermission]]
             /\ calls' = [d \in Execs |->
                  IF d = e THEN [calls[d] EXCEPT !.phase = "done"]
                  ELSE IF calls[d].phase = "posting"
                          /\ calls[e].ref[1].origAccess = "PRIVATE"
                  THEN [calls[d] EXCEPT !.cutOff = TRUE]
                  ELSE calls[d]]
          \/ /\ sharing' = sharing
             /\ calls' = [calls EXCEPT ![e].phase = "done", ![e].threw = TRUE]
  /\ UNCHANGED exposeFrame

ExposeNext ==
  \/ ReadSharing
  \/ SetPublic
  \/ PublishRequest
  \/ RestoreSharing

ExposeSpec == ExposeInit /\ [][ExposeNext]_vars

\* =====================================================================
\* one detail row through _parseDetailRow, _validateDetail and, when it is
\* valid, _buildLocalPost
\* =====================================================================
RequiredCells(v) == {"", v}
PriceCells == {"1200", "1,200", "12.5", "-500", "0", "free", ""}
ButtonCells == {"", "btn:none", "btn:BOOK", "custom"}
UrlCells == {"", "https://shop.example/p", "HTTPS://SHOP.EXAMPLE/P",
             "ftp://shop.example/p"}
ImageUrls == {None, Some(DownloadUrl(TheAsset))}

\* template column order: TemplateLabels
CellRows ==
  {<<b, s, "food", n, d, p, t, u, "">> :
     b \in RequiredCells("Shop"), s \in RequiredCells("S1"),
     n \in RequiredCells("Lunch"), d \in RequiredCells("desc"),
     p \in PriceCells, t \in ButtonCells, u \in UrlCells}

RowInit ==
  /\ Quiet
  /\ entry = "row" /\ pc = "cells"
  /\ cells \in CellRows
  /\ triggers = NoTriggers /\ setup = NoSetup
  /\ rowIdx = 0
  /\ folder = [f \in Files |-> "Inbox"]
  /\ routed = [f \in Files |-> "none"]
  /\ storeCodeMap = EmptyMap /\ listing = <<>> /\ pageToken = 0
  /\ listCalls = 0 /\ prevMap = None /\ exc = "none"
  /\ temp = NoTemp /\ calls = [e \in Execs |-> NoCall]
  /\ execs = [e \in Execs |-> IdleExec]
  /\ handledBy = [f \in Files |-> {}]
  /\ logger = NoLogger

rowFrame ==
  <<apiDef, entry, files, fileIdx, path, successCount, errorCount, rowOps,
    imageRef, result, restoreFailed, sharing, preSharing, delays, driveVars,
    execs, handledBy, calls, temp, cells,
    triggers, setup, runStart, logger, listing, storeCodeMap,
    pageToken, listCalls, rowIdx, prevMap, exc>>

\* the body of the row loop of _buildInputData (part_000 406-416) for the
\* first row below the detail header
ParseRow ==
  /\ pc = "cells"
  /\ LET rowNum == INPUT_DETAIL_HEADER_ROW + 1
         detail == _parseDetailRow(cells, _buildColIndexMap(TemplateLabels), rowNum)
     IN  parsed' = [NoParse EXCEPT !.details =
                      <<[rowNum |-> rowNum, data |-> detail,
                         errors |-> _validateDetail(detail, rowNum)]>>]
  /\ pc' = "built"
  /\ UNCHANGED <<rowFrame, lastPost>>

\* _buildLocalPost for a row without validation errors, with or without
\* an image URL
BuildPost ==
  /\ pc = "built"
  /\ Len(parsed.details[1].errors) = 0
  /\ \E imageUrl \in ImageUrls :
       lastPost' = Some(_buildLocalPost(parsed.details[1].data, imageUrl))
  /\ pc' = "posted"
  /\ UNCHANGED <<rowFrame, parsed>>

RowNext ==
  \/ ParseRow
  \/ BuildPost

RowSpec == RowInit /\ [][RowNext]_vars

\* =====================================================================
\* InputProcessor.parse of one file, the Excel reader step by step
\* =====================================================================
ExcelMimes == {"xlsx", "xls"}

\* what the reader hands on: the grid of the file, or its failure
ReadOf(ok) == [ok |-> ok, rows |-> IF ok THEN temp.grid ELSE <<>>]

ParseInit ==
  /\ Quiet
  /\ entry = "parse" /\ pc = "open"
  /\ temp \in {[NoTemp EXCEPT !.mime = m, !.grid = g] : m \in Mimes, g \in GridPool}
  /\ cells = NoCells
  /\ triggers = NoTriggers /\ setup = NoSetup
  /\ rowIdx = 0
  /\ folder = [f \in Files |-> "Inbox"]
  /\ routed = [f \in Files |-> "none"]
  /\ storeCodeMap = EmptyMap /\ listing = <<>> /\ pageToken = 0
  /\ listCalls = 0 /\ prevMap = None /\ exc = "none"
  /\ calls = [e \in Execs |-> NoCall]
  /\ execs = [e \in Execs |-> IdleExec]
  /\ handledBy = [f \in Files |-> {}]
  /\ logger = NoLogger

parseFrame ==
  <<apiDef, entry, files, fileIdx, path, successCount, errorCount, rowOps,
    imageRef, result, restoreFailed, lastPost, sharing, preSharing, delays,
    driveVars, execs, handledBy, calls, cells,
    triggers, setup, runStart, logger, listing, storeCodeMap,
    pageToken, listCalls, rowIdx, prevMap, exc>>

\* lines 285-291: no reader for the type
UnsupportedFormat ==
  /\ pc = "open"
  /\ temp.mime \notin ListedMimes \cup {"plain"}
  /\ parsed' = parse(temp.mime, ReadOf(FALSE))
  /\ pc' = "parsed"
  /\ UNCHANGED <<parseFrame, temp>>

\* _readGoogleSheet or _readCsv, returning the grid or throwing into the
\* catch block of parse
ReadSheetOrCsv ==
  /\ pc = "open"
  /\ temp.mime \in {"sheets", "csv", "plain"}
  /\ \E ok \in BOOLEAN :
       /\ temp' = [temp EXCEPT !.readOk = ok]
       /\ parsed' = parse(temp.mime, ReadOf(ok))
  /\ pc' = "parsed"
  /\ UNCHANGED parseFrame

\* _readExcel, lines 321-323: Drive.Files.insert makes the converted
\* spreadsheet, or throws into the catch block of parse
ExcelInsert ==
  /\ pc = "open"
  /\ temp.mime \in ExcelMimes
  /\ \/ /\ temp' = [temp EXCEPT !.state = "live"]
        /\ pc' = "excelRead"
        /\ UNCHANGED parsed
     \/ /\ parsed' = parse(temp.mime, ReadOf(FALSE))
        /\ pc' = "parsed"
        /\ UNCHANGED temp
  /\ UNCHANGED parseFrame

\* a try block whose exception leaves the function past the finally block
ExcelReadNoFinally ==
  /\ pc = "excelRead"
  /\ \E ok \in BOOLEAN :
       /\ temp' = [temp EXCEPT !.readOk = ok]
       /\ pc' = IF ok THEN "excelFinally" ELSE "excelReturn"
  /\ UNCHANGED <<parseFrame, parsed>>

\* lines 326-333: open the converted spreadsheet and read its values
ExcelRead ==
  /\ pc = "excelRead"
  /\ \E ok \in BOOLEAN : temp' = [temp EXCEPT !.readOk = ok]
  /\ pc' = "excelFinally"
  /\ UNCHANGED <<parseFrame, parsed>>

\* lines 334-336: setTrashed(true), a failure of which is swallowed
ExcelTrash ==
  /\ pc = "excelFinally"
  /\ \/ temp' = [temp EXCEPT !.state = "trashed",
                              !.trashCalls = temp.trashCalls + 1]
     \/ temp' = [temp EXCEPT !.trashThrew = TRUE,
                              !.trashCalls = temp.trashCalls + 1]
  /\ pc' = "excelReturn"
  /\ UNCHANGED <<parseFrame, parsed>>

\* line 337, or the exception of the try block going on to parse
ExcelReturn ==
  /\ pc = "excelReturn"
  /\ parsed' = parse(temp.mime, ReadOf(temp.readOk))
  /\ pc' = "parsed"
  /\ UNCHANGED <<parseFrame, temp>>

ParseNext ==
  \/ UnsupportedFormat
  \/ ReadSheetOrCsv
  \/ ExcelInsert
  \/ ExcelRead
  \/ ExcelTrash
  \/ ExcelReturn

ParseSpec == ParseInit /\ [][ParseNext]_vars

\* ---------------------------------------------------- trigger management
\* the functions of Triggers.js called one after another on a project that
\* starts without triggers; ScriptApp.deleteTrigger and create() may throw
InboxHandler == "processInboxFiles"
UploadHandler == "uploadAllStoreImages"
validHours == {1, 2, 4, 6, 8, 12}

HourArgs == {Undefined, Num(0), Num(1), Num(3), Num(12), Num(24), Str(2)}
AtHourArgs == {Undefined, Num(2), Str(2)}

TriggerInit ==
  /\ Quiet
  /\ entry = "triggers" /\ pc = "idle"
  /\ triggers = NoTriggers /\ setup = NoSetup
  /\ logger = NoLogger
  /\ listing = <<>> /\ storeCodeMap = EmptyMap /\ pageToken = 0
  /\ listCalls = 0 /\ rowIdx = 0
  /\ prevMap = None
  /\ folder = [f \in Files |-> "Inbox"]
  /\ routed = [f \in Files |-> "none"]
  /\ execs = [e \in Execs |-> IdleExec]
  /\ handledBy = [f \in Files |-> {}]
  /\ calls = [e \in Execs |-> NoCall]
  /\ temp = NoTemp /\ cells = NoCells
  /\ exc = "none"

triggerFrame ==
  <<quietVars, entry, pc, logger, listing, storeCodeMap, pageToken, listCalls,
    rowIdx, prevMap, driveVars, execs, handledBy, calls, temp, cells,
    runStart, exc>>

\* the triggers of a list whose getHandlerFunction() is h
BoundTo(list, h) == SelectSeq(list, LAMBDA t : t.handler = h)

RECURSIVE DropFirst(_, _, _)
\* the list after ScriptApp.deleteTrigger took its first n triggers of h
DropFirst(list, h, n) ==
  IF n = 0 \/ list = <<>> THEN list
  ELSE IF Head(list).handler = h THEN DropFirst(Tail(list), h, n - 1)
  ELSE <<Head(list)>> \o DropFirst(Tail(list), h, n)

\* a helper that deletes nothing
_deleteTriggersByFunctionNone(list, h) ==
  {[list |-> list, count |-> 0, threw |-> FALSE]}

\* _deleteTriggersByFunction: every trigger of h is deleted and counted,
\* unless the deletion of the k-th throws
_deleteTriggersByFunction(list, h) ==
  LET n == Len(BoundTo(list, h))
  IN  {[list |-> DropFirst(list, h, n), count |-> n, threw |-> FALSE]}
      \cup {[list |-> DropFirst(list, h, k - 1), count |-> k - 1,
              threw |-> TRUE] : k \in 1..n}

\* a check that turns away a missing argument only
RejectedOnlyMissing(arg) ==
  arg.t = "undefined" \/ (arg.t = "number" /\ arg.v = 0)

\* !hours || validHours.indexOf(hours) === -1
Rejected(arg) ==
  \/ arg.t = "undefined" \/ (arg.t = "number" /\ arg.v = 0)
  \/ ~(arg.t = "number" /\ arg.v \in validHours)

\* the body shared by the setup functions: the handler's triggers are
\* deleted, then ScriptApp.newTrigger(h)...create() adds the new one
Replace(fn, arg, h, kind, at) ==
  \E d \in _deleteTriggersByFunction(triggers, h), created \in BOOLEAN :
    /\ triggers' =
         IF ~d.threw /\ created
         THEN Append(d.list, [handler |-> h, kind |-> kind, at |-> at])
         ELSE d.list
    /\ setup' = [fn |-> fn, arg |-> arg, deleted |-> d.count,
                 threw |-> d.threw \/ ~created]

\* a function that returns at its argument check
TurnedAway(fn, arg) ==
  /\ triggers' = triggers
  /\ setup' = [fn |-> fn, arg |-> arg, deleted |-> 0, threw |-> FALSE]

\* the delete functions: the handler's triggers are deleted and counted
Delete(fn, h) ==
  \E d \in _deleteTriggersByFunction(triggers, h) :
    /\ triggers' = d.list
    /\ setup' = [fn |-> fn, arg |-> Undefined, deleted |-> d.count,
                 threw |-> d.threw]

SetupInboxDailyTrigger ==
  /\ entry = "triggers"
  /\ \E arg \in AtHourArgs :
       LET hour == IF arg.t = "number" THEN arg.v ELSE 8
       IN  Replace("setupInboxDailyTrigger", arg, InboxHandler, "everyDays",
                   hour)
  /\ UNCHANGED triggerFrame

SetupInboxHourlyTrigger ==
  /\ entry = "triggers"
  /\ \E arg \in HourArgs :
       IF Rejected(arg)
       THEN TurnedAway("setupInboxHourlyTrigger", arg)
       ELSE Replace("setupInboxHourlyTrigger", arg, InboxHandler,
                    "everyHours", arg.v)
  /\ UNCHANGED triggerFrame

DeleteInboxTriggers ==
  /\ entry = "triggers"
  /\ Delete("deleteInboxTriggers", InboxHandler)
  /\ UNCHANGED triggerFrame

SetupDailyTrigger ==
  /\ entry = "triggers"
  /\ Replace("setupDailyTrigger", Undefined, UploadHandler, "everyDays", 2)
  /\ UNCHANGED triggerFrame

SetupWeeklyTrigger ==
  /\ entry = "triggers"
  /\ Replace("setupWeeklyTrigger", Undefined, UploadHandler, "onWeekDay", 2)
  /\ UNCHANGED triggerFrame

SetupHourlyTrigger ==
  /\ entry = "triggers"
  /\ \E arg \in HourArgs :
       IF Rejected(arg)
       THEN TurnedAway("setupHourlyTrigger", arg)
       ELSE Replace("setupHourlyTrigger", arg, UploadHandler, "everyHours",
                    arg.v)
  /\ UNCHANGED triggerFrame

DeleteAllTriggers ==
  /\ entry = "triggers"
  /\ Delete("deleteAllTriggers", UploadHandler)
  /\ UNCHANGED triggerFrame

TriggerNext ==
  \/ SetupInboxDailyTrigger
  \/ SetupInboxHourlyTrigger
  \/ DeleteInboxTriggers
  \/ SetupDailyTrigger
  \/ SetupWeeklyTrigger
  \/ SetupHourlyTrigger
  \/ DeleteAllTriggers

TriggerSpec == TriggerInit /\ [][TriggerNext]_vars

\* ------------------------------------------------------------ properties
RowEntries == SelectSeq(logger.entries, LAMBDA e : e.kind = "row")
HeaderEntries == SelectSeq(logger.entries, LAMBDA e : e.kind = "header")
HasSuccessEntry ==
  \E k \in 1..Len(logger.entries) : logger.entries[k].result = "SUCCESS"
HasPublished == \E k \in 1..Len(rowOps) : rowOps[k].posted = "ok"
RoutedAfterLoop == pc = "fileDone" /\ path = "loop"

ErrorFolderMeansNoPublish ==
  (entry = "inbox" /\ pc = "fileDone" /\ folder[fileIdx] = "Error")
    => ~HasPublished

\* C3: when parsing yields no header, no row is processed and no directory
\* API call is made (no location listing, no listing creation); the run
\* that completes records every parse error as a header error in order,
\* finalizes the log once and routes the file to Error, and the only other
\* way out is an exception of the logger.
NoHeaderIsFatal ==
  (parsed.header = None /\ pc \in {"header", "fatal", "thrown", "fileDone", "crashed"})
    => /\ Len(parsed.details) = 0
       /\ rowOps = <<>> /\ listCalls = 0 /\ lastPost = None
       /\ successCount = 0
       /\ pc = "fileDone" =>
            /\ path \in {"fatal", "caught"}
            /\ routed[fileIdx] = "Error"
            /\ folder[fileIdx] \in {"Error", "Inbox"}
       /\ (pc = "fileDone" /\ path = "fatal") =>
            /\ logger.entries =
                 [k \in 1..Len(parsed.errors) |-> HeaderEntry(parsed.errors[k])]
            /\ Len(parsed.errors) = 1
            /\ logger.finalized = 1

NoHeaderIsFatalWitness ==
  /\ pc = "fileDone" /\ path = "fatal"
  /\ parsed.header = None
  /\ parsed.errors = <<"too few rows">>
  /\ logger.finalized = 1
  /\ folder[fileIdx] = "Error"

\* C4: for a file whose row 6 carries no recognized column label the parser
\* returns no rows and a fatal error, and no directory API call is made for
\* the file.
HeaderUnreadable ==
  \E k \in 1..Len(parsed.errors) : parsed.errors[k] = "detail header unreadable"

UnreadableLabelsMakeNoCall ==
  HeaderUnreadable => (Len(parsed.details) = 0 /\ listCalls = 0)

\* C5: a createProduct call that acquired an exposure handle has made
\* exactly one restore by the time it returns or throws, whatever the
\* outcome of the request; a call without a handle has made none.
OneRestorePerHandle ==
  /\ \A k \in 1..Len(rowOps) :
       (k < Len(rowOps) \/ pc \notin {"post", "restore"})
         => rowOps[k].restores = (IF rowOps[k].exposed THEN 1 ELSE 0)
  /\ pc = "record" => (rowOps[Len(rowOps)].exposed <=> imageRef # None)
  /\ pc \in {"post", "restore"} => rowOps[Len(rowOps)].restores = 0

OneRestorePerHandleWitness ==
  /\ pc = "record"
  /\ imageRef # None
  /\ rowOps[Len(rowOps)].posted = "failed"
  /\ rowOps[Len(rowOps)].restores = 1

\* C6: whatever the outcome of the publish call, when the restore itself
\* did not fail the sharing state of every asset after createProduct, and
\* after GBPApi.uploadMedia, is the state it had immediately before the
\* call.
SharingRestoredAfterCall ==
  /\ (pc = "record" /\ ~restoreFailed) => sharing = preSharing
  /\ (entry = "upload" /\ pc = "done" /\ ~restoreFailed) => sharing = preSharing

\* C7: a restore failure never changes the outcome of the row: a published
\* row is recorded as SUCCESS with the returned id (unless the log write
\* itself failed), a row whose publish failed is recorded as ERROR with the
\* message of the publish failure, and the loop goes on to the next row;
\* without a handle nothing is restored and no sharing state changes.
RestoreFailureKeepsOutcome ==
  /\ pc = "record" =>
       LET op == rowOps[Len(rowOps)]
       IN  /\ result.ok <=> (op.posted = "ok")
           /\ op.posted = "failed" =>
                result.message = <<"[createProduct] HTTP error">>
           /\ imageRef = None =>
                (~restoreFailed /\ op.restores = 0 /\ sharing = preSharing)
  /\ \A k \in 1..Len(RowEntries) :
       rowOps[k].restoreFailed =>
         /\ rowOps[k].posted = "ok" =>
              \/ /\ RowEntries[k].result = "SUCCESS"
                 /\ RowEntries[k].postId = "localPosts/1"
              \/ RowEntries[k].message = <<"logger write failed">>
         /\ rowOps[k].posted = "failed" =>
              /\ RowEntries[k].result = "ERROR"
              /\ RowEntries[k].message = <<"[createProduct] HTTP error">>
  /\ pc = "rows" => (Len(rowOps) = rowIdx - 1 /\ Len(RowEntries) = rowIdx - 1)

RestoreFailureKeepsOutcomeWitness ==
  /\ pc = "rows"
  /\ Len(rowOps) = 2
  /\ rowOps[1].restoreFailed /\ rowOps[1].posted = "ok"
  /\ RowEntries[1].result = "SUCCESS"
  /\ RowEntries[1].postId = "localPosts/1"

MapFailed == pc = "fileDone" /\ path = "mapFailed"

MapFailureIsFatal ==
  /\ MapFailed =>
       /\ Len(logger.entries) = Len(parsed.errors) + 1
       /\ logger.entries[Len(logger.entries)] =
            HeaderEntry("location listing failed")
       /\ logger.finalized = 1
       /\ routed[fileIdx] = "Error"
       /\ folder[fileIdx] \in {"Error", "Inbox"}
       /\ rowOps = <<>> /\ RowEntries = <<>> /\ lastPost = None
       /\ successCount = 0
  /\ pc \in {"rows", "post", "restore", "record"} =>
       /\ listing # <<>> /\ listCalls = Len(listing)
       /\ HeaderEntries =
            [k \in 1..Len(parsed.errors) |-> HeaderEntry(parsed.errors[k])]

MapFailureIsFatalWitness ==
  /\ MapFailed
  /\ listCalls = 2
  /\ Len(parsed.details) > 0
  /\ folder[fileIdx] = "Error"

\* C10: for a row with validation errors no location lookup, no exposure
\* and no listing-creation request is made; for a valid row whose store
\* code is not in the location map no exposure and no listing-creation
\* request is made.
RowOpOf(k) == rowOps[k]

SkippedRowsTouchNothing ==
  \A k \in 1..Len(rowOps) :
    LET d == parsed.details[k]
    IN  /\ Len(d.errors) > 0 =>
             (~RowOpOf(k).lookup /\ ~RowOpOf(k).exposed /\ RowOpOf(k).posted = "none")
        /\ (Len(d.errors) = 0 /\ d.data.storeCode \notin DOMAIN storeCodeMap) =>
             (~RowOpOf(k).exposed /\ RowOpOf(k).posted = "none")

\* C11: under processInboxFiles an exception thrown while a file is
\* processed never leaves the run: the file is routed to Error by the catch
\* at the file boundary, the files of the scan are taken one after another
\* in order, and when the run ends every one of them has been routed
ExceptionStaysInFile ==
  entry = "inbox" =>
    /\ pc # "crashed"
    /\ (pc = "fileDone" /\ path = "caught") => routed[fileIdx] = "Error"
    /\ (pc = "parse" /\ path = "caught") =>
         fileIdx > 1 /\ routed[fileIdx - 1] = "Error"
    /\ \A f \in Files :
         /\ f < fileIdx => routed[f] \in {"Processed", "Error"}
         /\ f > fileIdx => routed[f] = "none"
    /\ pc = "done" =>
         /\ fileIdx = files
         /\ \A f \in 1..files : routed[f] \in {"Processed", "Error"}

\* the first file's exception was caught and the second file is taken up
ExceptionStaysInFileWitness ==
  /\ entry = "inbox" /\ files = 2 /\ fileIdx = 2
  /\ pc = "parse" /\ path = "caught"
  /\ routed[1] = "Error" /\ folder[1] = "Error" /\ routed[2] = "none"

\* C12: under processFileById the file always ends in a terminal folder:
\* when the script is over, normally or by an exception thrown inside the
\* per-file path, the file has been routed to Processed or to Error
FileByIdEndsRouted ==
  (entry = "byId" /\ files = 1 /\ pc \in {"done", "crashed"}) =>
    routed[1] \in {"Processed", "Error"}

\* the store codes the locations of a listing declare
DeclaredCodes(pages) ==
  UNION {{pages[p][i].storeCode : i \in DOMAIN pages[p]} : p \in DOMAIN pages}
    \ {""}

\* C13: buildStoreCodeMap asks for the next page with the token of the
\* previous response until a response has none, so a listing of n pages
\* takes n requests (250 locations in pages of 100/100/50 take 3), and the
\* map it returns has an entry for exactly the store codes the locations
\* of those pages declare
PagedMapCoversListing ==
  /\ (entry = "map" /\ pc = "map") => pageToken = listCalls
  /\ (entry = "map" /\ pc = "rows") =>
       /\ listCalls = Len(listing)
       /\ DOMAIN storeCodeMap = DeclaredCodes(listing)
       /\ listing = BigListing =>
            listCalls = 3 /\ Cardinality(DOMAIN storeCodeMap) = 250

\* the requests and the entries of the map apart from what a location
\* declares through an inherited accessor name
PagedMapCoversStorable ==
  /\ (entry = "map" /\ pc = "map") => pageToken = listCalls
  /\ (entry = "map" /\ pc = "rows") =>
       /\ listCalls = Len(listing)
       /\ DOMAIN storeCodeMap = {c \in DeclaredCodes(listing) : Storable(c)}
       /\ listing = BigListing =>
            listCalls = 3 /\ Cardinality(DOMAIN storeCodeMap) = 250

\* the location that declares a store code last, in page order
LastDeclaring(pages, c) ==
  LET at == {q \in {<<p, i>> : p \in DOMAIN pages, i \in 1..100} :
               /\ q[2] \in DOMAIN pages[q[1]]
               /\ pages[q[1]][q[2]].storeCode = c}
      last == CHOOSE q \in at :
                \A r \in at : r[1] < q[1] \/ (r[1] = q[1] /\ r[2] <= q[2])
  IN  pages[last[1]][last[2]].name

\* C15: a second buildStoreCodeMap call against the unchanged listing
\* returns the map the first call returned, and that map is a function of
\* the pages alone: each stored code with the location declaring it last
SecondBuildSameMap ==
  (entry = "map" /\ pc = "rows" /\ prevMap # None) =>
    /\ storeCodeMap = prevMap[1]
    /\ listCalls = Len(listing)
    /\ storeCodeMap =
         [c \in {d \in DeclaredCodes(listing) : Storable(d)} |->
            LastDeclaring(listing, c)]

\* both calls done on the account of 250 locations
SecondBuildSameMapWitness ==
  /\ entry = "map" /\ pc = "rows" /\ prevMap # None
  /\ listing = BigListing
  /\ listCalls = 3
  /\ Cardinality(DOMAIN prevMap[1]) = 250
  /\ storeCodeMap["250"] = "250"

\* C14: for the store code of the row in hand findLocationName returns the
\* identifier of a location of the fetched listing that declares exactly
\* that code, and null when no location declares it
LookupFollowsListing ==
  (entry \in {"inbox", "byId"} /\ pc = "rows" /\ InLoop) =>
    LET code == item.data.storeCode
    IN  findLocationName(code, storeCodeMap) =
          IF code \in DeclaredCodes(listing)
          THEN LastDeclaring(listing, code) ELSE NULL

\* C16: every record call on a logger (addRow with any outcome,
\* addHeaderError) adds 1 to total and 1 to exactly one of success, skip,
\* error, so that total = success + skip + error after any calls
CountersAddUp ==
  /\ [](logger.stats.total =
          logger.stats.success + logger.stats.skip + logger.stats.error)
  /\ [][logger' # logger =>
          /\ logger'.stats.total = logger.stats.total + 1
          /\ \E k \in {"success", "skip", "error"} :
               /\ logger'.stats[k] = logger.stats[k] + 1
               /\ \A j \in {"success", "skip", "error"} \ {k} :
                    logger'.stats[j] = logger.stats[j]]_vars

\* a SUCCESS row, a SKIP row and an error have been recorded
CountersAddUpWitness ==
  /\ entry = "logger"
  /\ logger.stats = [total |-> 3, success |-> 1, skip |-> 1, error |-> 1]
  /\ Len(logger.entries) = 3

\* C17: each file gets a logger of its own whose counters start at zero,
\* and what was recorded for an earlier file of the run is in neither the
\* counters nor the success count that routes a later file: both are
\* bounded by what this file's own errors and rows account for
FreshCountersPerFile ==
  /\ pc = "header" =>
       /\ logger.stats = [total |-> 0, success |-> 0, skip |-> 0, error |-> 0]
       /\ logger.entries = <<>>
       /\ successCount = 0 /\ errorCount = 0
  /\ pc \in {"header", "fatal", "map", "rows", "post", "restore", "record",
              "thrown", "fileDone", "crashed"} =>
       /\ logger.stats.total <= Len(parsed.errors) + 1 + 2 * Len(rowOps)
       /\ logger.stats.success <=
            Cardinality({k \in DOMAIN rowOps : rowOps[k].posted = "ok"})
       /\ successCount <= logger.stats.success
       /\ Len(logger.entries) <= logger.stats.total
  /\ (pc = "fileDone" /\ path = "loop") =>
       (routed[fileIdx] = "Processed" <=>
          \E k \in DOMAIN rowOps : rowOps[k].posted = "ok" /\ HasSuccessEntry)

\* the first file had a success; the second, whose rows all failed, ends
\* with no success counted and goes to Error
FreshCountersPerFileWitness ==
  /\ entry = "inbox" /\ fileIdx = 2 /\ pc = "fileDone" /\ path = "loop"
  /\ routed[1] = "Processed" /\ routed[2] = "Error"
  /\ logger.stats.success = 0 /\ successCount = 0
  /\ logger.stats.total = Len(parsed.details) /\ Len(parsed.details) = 2

\* C18: a header that was parsed but carries validation errors (a missing
\* businessGroupId or googleAccountId) is not fatal: each error is recorded
\* as a header error, in order, and the file goes on to the location
\* listing and the row loop instead of the fatal-header exit
ParsedHeaderErrorsNotFatal ==
  (parsed.header # None /\ Len(parsed.errors) > 0) =>
    /\ pc # "fatal" /\ path # "fatal"
    /\ pc \in {"map", "rows", "post", "restore", "record"} =>
         /\ Len(logger.entries) >= Len(parsed.errors)
         /\ \A k \in 1..Len(parsed.errors) :
              logger.entries[k] = HeaderEntry(parsed.errors[k])
         /\ logger.finalized = 0
         /\ routed[fileIdx] = "none"
    /\ pc = "map" => Len(logger.entries) = Len(parsed.errors)

\* both identifiers missing, both errors recorded, and a row of the file
\* has been published
ParsedHeaderErrorsNotFatalWitness ==
  /\ pc = "record" /\ result.ok
  /\ parsed.header # None
  /\ parsed.errors = <<"businessGroupId missing", "googleAccountId missing">>
  /\ Len(HeaderEntries) = 2
  /\ listCalls = Len(listing) /\ Len(rowOps) = 1

\* the executions that ran _processOneFile on a file
HandlersOf(f) == {h.exec : h \in handledBy[f]}

\* C19: a file that a processInboxFiles run has processed is no longer a
\* direct child of the inbox, and no run that starts after that run has
\* ended lists or processes it again
ProcessedOnceAcrossRuns ==
  entry = "overlap" =>
    /\ \A f \in Files : handledBy[f] # {} => folder[f] # "Inbox"
    /\ \A e \in Execs, d \in Execs, f \in Files :
         (d \in execs[e].after /\ d \in HandlersOf(f)) =>
           /\ e \notin HandlersOf(f)
           /\ \A k \in DOMAIN execs[e].scanned : execs[e].scanned[k] # f

\* two executions overlap when neither listed the inbox after the other
\* had ended
Overlap(d, e) ==
  /\ d # e
  /\ execs[d].phase # "idle" /\ execs[e].phase # "idle"
  /\ d \notin execs[e].after /\ e \notin execs[d].after

\* C20: when two executions of processInboxFiles overlap, every inbox file
\* is processed, and has its rows published, by at most one of them
OverlapSharesNoFile ==
  entry = "overlap" =>
    \A d \in Execs, e \in Execs, f \in Files :
      Overlap(d, e) => ~(d \in HandlersOf(f) /\ e \in HandlersOf(f))

\* C21: when publish calls of two executions on the same asset interleave
\* and no Drive call of theirs fails, then after all have finished the
\* asset has the access level and permission it had before any began, and
\* no call had the asset turned private while its own request was in flight
InterleavedExposureRestores ==
  (entry = "expose" /\ \A e \in Execs : ~calls[e].threw) =>
    /\ \A e \in Execs : ~calls[e].cutOff
    /\ (\A e \in Execs : calls[e].phase = "done") => sharing = preSharing

\* the parsed row and the payload of the row specification
rowData == parsed.details[1].data
rowPost == lastPost[1]

\* C22: a valid row with price <= 0 has no price block in its payload, a
\* row with price > 0 has one whose units is the largest whole number not
\* above the price; no parsed price is negative
PriceBlockFollowsPrice ==
  /\ (entry = "row" /\ pc # "cells") => rowData.price >= 0
  /\ (entry = "row" /\ pc = "posted") =>
       /\ rowData.price <= 0 => rowPost.price = None
       /\ rowData.price > 0 =>
            /\ rowPost.price # None
            /\ rowPost.price[1].units * 100 <= rowData.price
            /\ rowData.price < (rowPost.price[1].units + 1) * 100

PriceBlockFollowsPriceWitness ==
  /\ entry = "row" /\ pc = "posted"
  /\ cells[6] = "12.5"
  /\ rowPost.price # None /\ rowPost.price[1].units = 12

\* C23: the payload has a call-to-action block exactly when the row has a
\* landing-page URL; with a URL and no button label the action code is
\* LEARN_MORE, and with a URL and a label of the button map it is the code
\* the map gives for the label
CallToActionFollowsLabel ==
  (entry = "row" /\ pc = "posted") =>
    /\ (rowPost.callToAction # None) <=> (rowData.landingPageUrl # "")
    /\ (rowData.landingPageUrl # "" /\ rowData.buttonType = "") =>
         rowPost.callToAction[1].actionType = "LEARN_MORE"
    /\ (rowData.landingPageUrl # "" /\ rowData.buttonType \in DOMAIN BUTTON_TYPE_MAP) =>
         rowPost.callToAction[1].actionType = BUTTON_TYPE_MAP[rowData.buttonType]

\* the rules a sheet row violates, read off its trimmed cells
ViolatedRules ==
  LET cell(i) == Trim(cells[i])
  IN  {r \in {"businessName required", "storeCode required",
              "productName required", "description required",
              "landingPageUrl malformed", "button needs landingPageUrl"} :
         \/ r = "businessName required" /\ cell(1) = ""
         \/ r = "storeCode required" /\ cell(2) = ""
         \/ r = "productName required" /\ cell(4) = ""
         \/ r = "description required" /\ cell(5) = ""
         \/ r = "landingPageUrl malformed" /\ cell(8) # "" /\ ~IsHttpUrl(cell(8))
         \/ r = "button needs landingPageUrl"
            /\ cell(7) \notin {"", "btn:none"} /\ cell(8) = ""}

\* C24: the error list of a row has exactly one entry for every rule the
\* row violates and no other entry, and the row goes on to the payload
\* only when it violates none
EveryViolatedRuleReported ==
  /\ (entry = "row" /\ pc # "cells") =>
       LET errors == parsed.details[1].errors
       IN  /\ {errors[i].msg : i \in 1..Len(errors)} = ViolatedRules
           /\ Len(errors) = Cardinality(ViolatedRules)
           /\ ENABLED BuildPost <=> (pc = "built" /\ ViolatedRules = {})
  /\ (entry = "row" /\ pc = "posted") => ViolatedRules = {}

EveryViolatedRuleReportedWitness ==
  /\ entry = "row" /\ pc = "built"
  /\ Cardinality(ViolatedRules) = 5
  /\ Len(parsed.details[1].errors) = 5

\* C25: a parse result with a null header has no rows and exactly one
\* error; a grid of fewer than 6 rows, a type without a reader and a read
\* that threw each give such a result
NullHeaderOneError ==
  (entry = "parse" /\ pc = "parsed") =>
    /\ parsed.header = None =>
         parsed.details = <<>> /\ Len(parsed.errors) = 1
    /\ temp.mime \notin ListedMimes \cup {"plain"} => parsed.header = None
    /\ (temp.mime \in ListedMimes \cup {"plain"} /\ ~temp.readOk) =>
         parsed.header = None
    /\ (temp.mime \in ListedMimes \cup {"plain"} /\ temp.readOk
          /\ Len(temp.grid) < INPUT_DETAIL_HEADER_ROW) => parsed.header = None

NullHeaderOneErrorWitness ==
  /\ entry = "parse" /\ pc = "parsed"
  /\ temp.mime = "csv" /\ temp.readOk
  /\ Len(temp.grid) = INPUT_DETAIL_HEADER_ROW - 1
  /\ parsed.header = None /\ Len(parsed.errors) = 1

Publishable(i) ==
  /\ Len(parsed.details[i].errors) = 0
  /\ findLocationName(parsed.details[i].data.storeCode, storeCodeMap) # NULL

\* row i names an image that none of the lookups finds
UnresolvedImage(i) ==
  /\ Publishable(i)
  /\ parsed.details[i].data.imagePath # ""
  /\ ResolveImage(parsed.details[i].data.imagePath) = NULL

\* the statuses the log holds for row i
LoggedAs(i) ==
  {logger.entries[j].result :
     j \in {k \in 1..Len(logger.entries) :
              /\ logger.entries[k].kind = "row"
              /\ logger.entries[k].rowNum = parsed.details[i].rowNum}}

\* C27: for a row whose image no lookup finds, no request is sent, no
\* setSharing call is made and the sharing states stay as they were; once
\* the row is done the log holds it as ERROR, and the loop goes on to the
\* rows after it
UnresolvedImageFailsRowOnly ==
  \A i \in 1..Len(rowOps) :
    UnresolvedImage(i) =>
      /\ rowOps[i].requests = 0 /\ rowOps[i].posted = "none"
      /\ ~rowOps[i].exposed /\ rowOps[i].restores = 0
      /\ (i = rowIdx /\ pc = "record") =>
           ~result.ok /\ sharing = preSharing /\ lastPost = None
      /\ i < rowIdx => LoggedAs(i) = {"ERROR"}
      /\ (i < rowIdx /\ pc = "rows" /\ i < Len(parsed.details)) =>
           (rowIdx <= Len(parsed.details) \/ Len(rowOps) = Len(parsed.details))
      /\ (pc = "fileDone" /\ path = "loop") => Len(rowOps) = Len(parsed.details)

UnresolvedImageFailsRowOnlyWitness ==
  /\ pc = "fileDone" /\ path = "loop"
  /\ Len(rowOps) = 2
  /\ UnresolvedImage(1) /\ LoggedAs(1) = {"ERROR"}
  /\ rowOps[2].posted = "ok"

\* the rows of the file in hand a request was sent for
RequestedRows == {i \in 1..Len(rowOps) : rowOps[i].requests > 0}

\* row i names no image, or an image one of the lookups finds
ImageResolved(i) ==
  \/ parsed.details[i].data.imagePath = ""
  \/ ResolveImage(parsed.details[i].data.imagePath) # NULL

Returned == pc = "fileDone" /\ path \in {"loop", "fatal", "mapFailed"}

\* C29: a file whose processing returned has had its log finalized once,
\* after every record call (the summary written by finalize shows the
\* counters as they are at the end) and before the move (a finalized log
\* belongs to a returned file; an exception, that of finalize included,
\* finds the file not yet moved); finalize does not change the counters,
\* and no step changes the entries or counters of a finalized log
FinalizedOnceAfterRecords ==
  /\ [](/\ logger.finalized <= 1
        /\ Returned =>
             /\ logger.finalized = 1
             /\ logger.summary = Some(logger.stats)
             /\ routed[fileIdx] # "none"
        /\ logger.finalized = 1 => Returned
        /\ pc = "thrown" => logger.finalized = 0 /\ routed[fileIdx] = "none")
  /\ [][/\ logger.finalized = 1 =>
             \/ logger'.entries = logger.entries /\ logger'.stats = logger.stats
             \/ ~logger'.created
        /\ (logger.finalized = 0 /\ logger'.finalized = 1) =>
             \/ logger'.stats = logger.stats
             \/ path' = "mapFailed"]_vars

FinalizedOnceAfterRecordsWitness ==
  /\ Returned /\ path = "loop"
  /\ logger.finalized = 1
  /\ logger.summary = Some(logger.stats)
  /\ logger.stats.total = 2 /\ logger.stats.success = 1
  /\ routed[fileIdx] = "Processed"

\* C30: a file starts with no map and no listing request made; the map
\* is built only for a file whose header was parsed, in one pass over the
\* pages of the listing, and the pass is complete before the first row is
\* taken up; the map the rows are resolved with holds the codes of the
\* listing fetched for this file and no others
MapBuiltOncePerFile ==
  entry \in {"inbox", "byId"} =>
    /\ pc \in {"parse", "header", "fatal"} =>
         storeCodeMap = EmptyMap /\ listCalls = 0 /\ listing = <<>>
    /\ pc = "map" =>
         rowOps = <<>> /\ parsed.header # None /\ pageToken = listCalls
    /\ pc \in {"rows", "post", "restore", "record"} =>
         /\ parsed.header # None
         /\ listCalls = Len(listing) /\ listCalls > 0
         /\ DOMAIN storeCodeMap = DeclaredCodes(listing)
    /\ rowOps # <<>> => listCalls = Len(listing) /\ listCalls > 0
    /\ (Returned /\ path = "fatal") => listCalls = 0 /\ parsed.header = None
    /\ (Returned /\ path = "loop") =>
         parsed.header # None /\ listCalls = Len(listing) /\ listCalls > 0

MapBuiltOncePerFileWitness ==
  /\ entry = "inbox" /\ fileIdx = 2 /\ routed[1] = "Processed"
  /\ pc = "record" /\ result.ok
  /\ listCalls = 2 /\ Len(listing) = 2
  /\ DOMAIN storeCodeMap = {"S1", "S2"}

\* the cell texts that are empty or whitespace
BlankCells == {"", " ", "  "}

\* the 1-based numbers of the grid rows below the detail header row that
\* have a cell with text
NonBlankRows(grid) ==
  {i \in (INPUT_DETAIL_HEADER_ROW + 1)..Len(grid) :
     \E j \in 1..Len(grid[i]) : grid[i][j] \notin BlankCells}

\* C31: for a grid whose detail header row carries the template labels,
\* the detail list has one entry for every row below row 6 with a non-blank
\* cell and none for any other row, in grid order, each entry carrying the
\* number and the cells of its grid row
DetailsAreNonBlankRows ==
  (entry = "parse" /\ pc = "parsed" /\ parsed.header # None
     /\ temp.grid[INPUT_DETAIL_HEADER_ROW] = TemplateLabels) =>
    /\ {parsed.details[k].rowNum : k \in 1..Len(parsed.details)} =
         NonBlankRows(temp.grid)
    /\ Len(parsed.details) = Cardinality(NonBlankRows(temp.grid))
    /\ \A k \in 1..Len(parsed.details) :
         /\ k < Len(parsed.details) =>
              parsed.details[k].rowNum < parsed.details[k + 1].rowNum
         /\ parsed.details[k].data.rowNum = parsed.details[k].rowNum
         /\ parsed.details[k].data.productName =
              temp.grid[parsed.details[k].rowNum][4]

DetailsAreNonBlankRowsWitness ==
  /\ entry = "parse" /\ pc = "parsed" /\ parsed.header # None
  /\ Len(temp.grid) = INPUT_DETAIL_HEADER_ROW + 2
  /\ temp.grid[INPUT_DETAIL_HEADER_ROW + 1] = RowBlank
  /\ Len(parsed.details) = 1
  /\ parsed.details[1].rowNum = INPUT_DETAIL_HEADER_ROW + 2
  /\ parsed.errors = <<>>

\* C32: a file with a parsed header and no parse error but that of the
\* empty detail section, once _processOneFile has returned, was sent to
\* Error; its log holds header-level entries only, the first of them that
\* error and, when the listing was served, no other; no row was taken up
EmptyDetailSectionToError ==
  (Returned /\ parsed.header # None /\ parsed.errors = <<"no detail rows">>) =>
    /\ routed[fileIdx] = "Error"
    /\ rowOps = <<>> /\ successCount = 0 /\ errorCount = 0
    /\ \A k \in 1..Len(logger.entries) : logger.entries[k].kind = "header"
    /\ logger.entries[1] = HeaderEntry("no detail rows")
    /\ path = "loop" => Len(logger.entries) = 1

EmptyDetailSectionToErrorWitness ==
  /\ Returned /\ path = "loop"
  /\ parsed.header # None /\ parsed.errors = <<"no detail rows">>
  /\ routed[fileIdx] = "Error"
  /\ logger.entries = <<HeaderEntry("no detail rows")>>
  /\ logger.stats.total = 1 /\ logger.stats.error = 1

RowEvents(i) ==
     (IF rowOps[i].requests > 0 THEN <<"call">> ELSE <<>>)
  \o (IF Publishable(i) /\ i < rowIdx THEN <<"delay">> ELSE <<>>)

RECURSIVE RowsTrace(_)
RowsTrace(n) == IF n = 0 THEN <<>> ELSE RowsTrace(n - 1) \o RowEvents(n)

\* the provider calls and delays of the file in hand so far: the listing
\* requests, then the rows
FileTrace == [k \in 1..listCalls |-> "call"] \o RowsTrace(Len(rowOps))

\* C34: in the order in which the provider calls and the delays of a file
\* occur (listing pages, then listing creations), no provider call follows
\* another without a delay between them
DelayBetweenProviderCalls ==
  entry = "inbox" =>
    \A k \in 1..(Len(FileTrace) - 1) :
      ~(FileTrace[k] = "call" /\ FileTrace[k + 1] = "call")

\* C35: within one execution, when the request of a row is about to be
\* sent and when it has just been sent, an asset the call holds a handle
\* for is shared with anyone with the link, view only; the payload sent has
\* a media block exactly when the call holds a handle, and the block names
\* the download URL of the asset the row's image path resolves to
MediaFollowsExposure ==
  entry \in {"inbox", "byId"} =>
    /\ (pc \in {"post", "restore"} /\ imageRef # None) =>
         /\ sharing[imageRef[1].file] = Public
         /\ rowOps[Len(rowOps)].exposed
         /\ imageRef[1].file = ResolveImage(item.data.imagePath)
    /\ pc = "restore" =>
         /\ (lastPost[1].media # None) <=> (imageRef # None)
         /\ imageRef # None =>
              /\ lastPost[1].media[1].mediaFormat = "PHOTO"
              /\ lastPost[1].media[1].sourceUrl =
                   <<"uc?export=download&id=", imageRef[1].file>>

MediaFollowsExposureWitness ==
  /\ entry = "inbox" /\ pc = "restore"
  /\ imageRef # None /\ lastPost[1].media # None
  /\ preSharing[imageRef[1].file] = Private
  /\ sharing[imageRef[1].file] = Public
  /\ rowOps[Len(rowOps)].posted = "ok"

\* C36: the summary finalize writes shows '-' for the success rate when no
\* record call was made, and otherwise the whole number nearest to
\* 100 * success / total followed by '%', where total has counted every
\* record call, those for header-level errors included
SuccessRateRounded ==
  (entry = "logger" /\ pc = "summary") =>
    LET st == logger.summary[1]
        rate == logger.successRate[1]
    IN  /\ st = logger.stats
        /\ st.total >= Len(logger.entries)
        /\ st.total = 0 <=> rate = <<"-">>
        /\ st.total > 0 =>
             /\ Len(rate) = 2 /\ rate[2] = "%"
             /\ 2 * rate[1] * st.total - st.total <= 200 * st.success
             /\ 200 * st.success < 2 * rate[1] * st.total + st.total

SuccessRateRoundedWitness ==
  /\ entry = "logger" /\ pc = "summary"
  /\ logger.stats = [total |-> 3, success |-> 2, skip |-> 0, error |-> 1]
  /\ \E k \in 1..Len(logger.entries) : logger.entries[k].kind = "header"
  /\ logger.successRate = Some(<<67, "%">>)

\* the functions of Triggers.js that work on each handler
InboxCalls ==
  {"setupInboxDailyTrigger", "setupInboxHourlyTrigger", "deleteInboxTriggers"}
UploadCalls ==
  {"setupDailyTrigger", "setupWeeklyTrigger", "setupHourlyTrigger",
   "deleteAllTriggers"}

\* C37: starting from a project without triggers, after any sequence of
\* setup and delete calls each handler has at most one trigger, and a call
\* for one handler leaves the triggers bound to the other handler as they were
OneTriggerPerHandler ==
  /\ [](entry = "triggers" =>
         /\ Len(BoundTo(triggers, InboxHandler)) <= 1
         /\ Len(BoundTo(triggers, UploadHandler)) <= 1)
  /\ [][entry = "triggers" =>
         /\ setup'.fn \in InboxCalls =>
              BoundTo(triggers', UploadHandler) = BoundTo(triggers, UploadHandler)
         /\ setup'.fn \in UploadCalls =>
              BoundTo(triggers', InboxHandler) = BoundTo(triggers, InboxHandler)]_vars

\* a setup call replaced its handler's trigger next to the other handler's
OneTriggerPerHandlerWitness ==
  /\ entry = "triggers"
  /\ setup = [fn |-> "setupHourlyTrigger", arg |-> Num(12), deleted |-> 1,
              threw |-> FALSE]
  /\ triggers = <<[handler |-> InboxHandler, kind |-> "everyDays", at |-> 8],
                  [handler |-> UploadHandler, kind |-> "everyHours", at |-> 12]>>

\* C38: an every-N-hours setup call whose N is missing or is not one of
\* 1, 2, 4, 6, 8, 12 creates no trigger and leaves the project's triggers
\* as they were
InvalidHoursChangeNothing ==
  [][(/\ entry = "triggers"
      /\ setup'.fn \in {"setupInboxHourlyTrigger", "setupHourlyTrigger"}
      /\ ~(setup'.arg.t = "number" /\ setup'.arg.v \in {1, 2, 4, 6, 8, 12}))
     => triggers' = triggers /\ setup'.deleted = 0 /\ ~setup'.threw]_vars

\* an every-3-hours call was made on a project with both triggers set
InvalidHoursChangeNothingWitness ==
  /\ entry = "triggers"
  /\ setup.fn = "setupHourlyTrigger" /\ setup.arg = Num(3)
  /\ Len(BoundTo(triggers, UploadHandler)) = 1
  /\ Len(BoundTo(triggers, InboxHandler)) = 1

\* the row loop is over and the file is about to be, or has been, routed
AtRouting ==
  /\ entry \in {"inbox", "byId"}
  /\ \/ pc = "rows" /\ rowIdx > Len(parsed.details)
     \/ Returned /\ path = "loop"

\* C39: when _processOneFile reaches the routing decision, the accumulator
\* and the function's own counters agree: success equals successCount, skip
\* is 0, error equals errorCount plus the header errors recorded, and
\* successCount + errorCount is the number of parsed detail rows
CountersAgreeAtRouting ==
  AtRouting =>
    /\ logger.stats.success = successCount
    /\ logger.stats.skip = 0
    /\ logger.stats.error = errorCount + Len(HeaderEntries)
    /\ successCount + errorCount = Len(parsed.details)

\* between two rows of the first file of a run, or at that file's end: the
\* rows taken up so far are all the rows of the run
AtRowBoundary ==
  /\ entry \in {"inbox", "byId"}
  /\ fileIdx <= 1
  /\ pc = "rows" \/ Returned

NoRestoreFailed == \A i \in 1..Len(rowOps) : ~rowOps[i].restoreFailed

\* C40: at every row boundary of the row loop and at the end of each file,
\* when no restore has failed, every asset is shared as it was when the run
\* started
SharingAsAtStart ==
  (AtRowBoundary /\ NoRestoreFailed) => sharing = runStart

====
